---- MODULE Spec2Model ----
(***************************************************************************)
(* A model of the debAIte debate core: the ConversationManager (transcript *)
(* store and context policy), the DebateController (round scheduler), the  *)
(* DebateAgent.respond turn and the BatchDebateProcessor (batched          *)
(* acquisition with its parser and sequential fallback).                   *)
(*                                                                         *)
(* Text is modelled as a sequence of tokens (a token is a TLA+ string), so *)
(* that formatting, joining, stripping and parsing are computed and not    *)
(* assumed.  The external capabilities (generation, summarisation,         *)
(* retrieval) are inputs of the actions: each call either returns one of a *)
(* few texts or raises.                                                    *)
(***************************************************************************)
EXTENDS Integers, Sequences, FiniteSets, TLC

VARIABLES
    cfg,            \* DebateController fields fixed by __init__ (agents, max_rounds, ...)
    env,            \* the installation: is rag importable / constructible
    cm,             \* the ConversationManager object (self.cm)
    pc,             \* position of the thread of control inside run()
    stage,          \* stage label of the round being played
    r,              \* loop variable of `for r in range(2, max_rounds)`
    idx,            \* loop position of `for agent in self.agents`
    shared_context, \* the shared_context argument of _individual_round
    retrievers,     \* agent._knowledge_retriever of every roster agent
    faults,         \* number of generation failures injected so far
    stageLog,       \* the stages run() has started, in order
    lastCall,       \* the arguments and result of the latest agent.respond
    lastBatch,      \* the environment and result of the latest batch_respond, and
                    \* how each batch_respond call so far has ended (log)
    abort,          \* the exception that left run(), if any
    runs,           \* number of times run() has been invoked on the controller
    lastCtx,        \* the value returned by the latest context_for call
    calls,          \* number of state-changing ConversationManager calls made directly
    response_text,  \* input of parse_batch_response
    parsed,         \* result of parse_batch_response
    user_debate,    \* the UserVsAIController object and the position of its run()
    session_state   \* st.session_state of the Streamlit front end

vars == <<cfg, env, cm, pc, stage, r, idx, shared_context, retrievers, faults,
          stageLog, lastCall, lastBatch, abort, runs, lastCtx, calls, response_text,
          parsed, user_debate, session_state>>

\* the variables of a DebateController run, apart from its ConversationManager
runVars == <<cfg, env, pc, stage, r, idx, shared_context, retrievers, faults,
             stageLog, lastCall, lastBatch, abort, runs>>

\* the variables of a parse_batch_response call
parseVars == <<response_text, parsed>>

\* the variables of the two interactive front ends
uiVars == <<user_debate, session_state>>

(***************************************************************************)
(* Bounds of the model.                                                    *)
(***************************************************************************)
MaxAgents == 3
MaxRounds == 3
MaxFaults == 1
MaxCalls == 5
MaxWindow == 1
MaxThreshold == 2
MaxLines == 3
MaxRuns == 2
MaxSeats == 7

(***************************************************************************)
(* Text helpers: Python's str.join, str.strip and slicing.                 *)
(***************************************************************************)
NL == "\n"
None == "None"

IsSpace(tok) == tok \in {" ", NL}

RECURSIVE Join(_, _)
\* sep.join(parts): parts is a sequence of texts, sep a text
Join(parts, sep) ==
    IF Len(parts) = 0 THEN << >>
    ELSE IF Len(parts) = 1 THEN parts[1]
    ELSE parts[1] \o sep \o Join(Tail(parts), sep)

RECURSIVE LStrip(_)
LStrip(s) == IF Len(s) > 0 /\ IsSpace(s[1]) THEN LStrip(Tail(s)) ELSE s

RECURSIVE RStrip(_)
RStrip(s) ==
    IF Len(s) > 0 /\ IsSpace(s[Len(s)]) THEN RStrip(SubSeq(s, 1, Len(s) - 1)) ELSE s

\* str.strip()
Strip(s) == RStrip(LStrip(s))

Max2(a, b) == IF a >= b THEN a ELSE b
Min2(a, b) == IF a <= b THEN a ELSE b

\* seq[k:] with Python's index normalisation
PySliceFrom(s, k) ==
    LET start == IF k < 0 THEN Max2(Len(s) + k, 0) ELSE Min2(k, Len(s))
    IN  SubSeq(s, start + 1, Len(s))

\* seq[:k] with Python's index normalisation
PySliceTo(s, k) ==
    LET stop == IF k < 0 THEN Max2(Len(s) + k, 0) ELSE Min2(k, Len(s))
    IN  SubSeq(s, 1, stop)

\* f"{m['agent']}: {m['message']}"
Render(m) == <<m.agent, ": ">> \o m.message

\* [f"{m['agent']}: {m['message']}" for m in msgs]
RenderAll(msgs) == [i \in 1..Len(msgs) |-> Render(msgs[i])]

(***************************************************************************)
(* ConversationManager                                                     *)
(***************************************************************************)
FULL == "full"
SUMMARIZED == "summarized"
HYBRID == "hybrid"
ContextMode == {FULL, SUMMARIZED, HYBRID}

\* ConversationManager.__init__
ConversationManager(mode, window_size, summary_every_n_turns) ==
    [ mode |-> mode,
      window_size |-> window_size,
      summary_every_n_turns |-> summary_every_n_turns,
      history |-> << >>,
      summary |-> << >>,
      round |-> 0,
      topic |-> << >>,
      participants |-> << >>,
      turns_since_last_summary |-> 0,
      summary_model |-> << >>,     \* the calls made to summary_model.generate_content
      summary_ok |-> TRUE ]        \* did the latest of them return (or did it raise)

\* [m for m in self.history if m["type"] != "system"]
NonSystem(history) == SelectSeq(history, LAMBDA m : m.type # "system")

\* The outcomes of one summary_model.generate_content call.
SummaryOutcomes ==
    { [ok |-> TRUE, text |-> <<"S">>],
      [ok |-> TRUE, text |-> <<" ">>],
      [ok |-> FALSE, text |-> <<"E">>] }

\* _update_summary without the early return for a short transcript
_update_summary_nowindow(c, out) ==
    LET msgs == NonSystem(c.history)
        old == PySliceTo(msgs, 0 - c.window_size)
        prompt == <<"Summarise the following multi-agent debate">>
                  \o Join(RenderAll(old), <<NL>>)
                  \o <<NL, NL, "Summary:">>
    IN  [c EXCEPT
           !.summary_model = Append(@, [n |-> Len(msgs), prompt |-> prompt,
                                        turns |-> Len(old)]),
           !.summary_ok = out.ok,
           !.summary = IF out.ok THEN Strip(out.text)
                       ELSE c.summary \o <<NL, "[Summary failed: ">> \o out.text \o <<"]">>,
           !.turns_since_last_summary = 0]

\* _update_summary whose except branch overwrites the summary
_update_summary_discards(c, out) ==
    LET msgs == NonSystem(c.history)
        old == PySliceTo(msgs, 0 - c.window_size)
        prompt == <<"Summarise the following multi-agent debate">>
                  \o Join(RenderAll(old), <<NL>>)
                  \o <<NL, NL, "Summary:">>
    IN  IF Len(msgs) <= c.window_size THEN c
        ELSE [c EXCEPT
                !.summary_model = Append(@, [n |-> Len(msgs), prompt |-> prompt,
                                             turns |-> Len(old)]),
                !.summary_ok = out.ok,
                !.summary = IF out.ok THEN Strip(out.text)
                            ELSE <<NL, "[Summary failed: ">> \o out.text \o <<"]">>,
                !.turns_since_last_summary = 0]

\* _update_summary that leaves the counter as it is
_update_summary_noreset(c, out) ==
    LET msgs == NonSystem(c.history)
        old == PySliceTo(msgs, 0 - c.window_size)
        prompt == <<"Summarise the following multi-agent debate">>
                  \o Join(RenderAll(old), <<NL>>)
                  \o <<NL, NL, "Summary:">>
    IN  IF Len(msgs) <= c.window_size THEN c
        ELSE [c EXCEPT
                !.summary_model = Append(@, [n |-> Len(msgs), prompt |-> prompt,
                                             turns |-> Len(old)]),
                !.summary_ok = out.ok,
                !.summary = IF out.ok THEN Strip(out.text)
                            ELSE c.summary \o <<NL, "[Summary failed: ">> \o out.text \o <<"]">>]

_update_summary(c, out) ==
    LET msgs == NonSystem(c.history)
        old == PySliceTo(msgs, 0 - c.window_size)
        prompt == <<"Summarise the following multi-agent debate">>
                  \o Join(RenderAll(old), <<NL>>)
                  \o <<NL, NL, "Summary:">>
    IN  IF Len(msgs) <= c.window_size THEN c
        ELSE [c EXCEPT
                !.summary_model = Append(@, [n |-> Len(msgs), prompt |-> prompt,
                                             turns |-> Len(old)]),
                !.summary_ok = out.ok,
                !.summary = IF out.ok THEN Strip(out.text)
                            ELSE c.summary \o <<NL, "[Summary failed: ">> \o out.text \o <<"]">>,
                !.turns_since_last_summary = 0]

\* _add_message that leaves the compaction for later
_add_message_deferred(c, speaker, text, kind, out) ==
    LET c1 == [c EXCEPT !.history = Append(@, [round |-> c.round, agent |-> speaker,
                                               message |-> text, type |-> kind])]
        c2 == [c1 EXCEPT !.turns_since_last_summary = @ + 1]
    IN  IF kind # "system" THEN c2 ELSE c1

\* _add_message with the threshold compared by > instead of >=
_add_message_strict(c, speaker, text, kind, out) ==
    LET c1 == [c EXCEPT !.history = Append(@, [round |-> c.round, agent |-> speaker,
                                               message |-> text, type |-> kind])]
        c2 == [c1 EXCEPT !.turns_since_last_summary = @ + 1]
    IN  IF kind # "system"
        THEN IF c2.mode \in {HYBRID, SUMMARIZED}
                /\ c2.turns_since_last_summary > c2.summary_every_n_turns
             THEN _update_summary(c2, out)
             ELSE c2
        ELSE c1

\* _add_message without the test of the mode
_add_message_anymode(c, speaker, text, kind, out) ==
    LET c1 == [c EXCEPT !.history = Append(@, [round |-> c.round, agent |-> speaker,
                                               message |-> text, type |-> kind])]
        c2 == [c1 EXCEPT !.turns_since_last_summary = @ + 1]
    IN  IF kind # "system"
        THEN IF c2.turns_since_last_summary >= c2.summary_every_n_turns
             THEN _update_summary(c2, out)
             ELSE c2
        ELSE c1

_add_message(c, speaker, text, kind, out) ==
    LET c1 == [c EXCEPT !.history = Append(@, [round |-> c.round, agent |-> speaker,
                                               message |-> text, type |-> kind])]
        c2 == [c1 EXCEPT !.turns_since_last_summary = @ + 1]
    IN  IF kind # "system"
        THEN IF c2.mode \in {HYBRID, SUMMARIZED}
                /\ c2.turns_since_last_summary >= c2.summary_every_n_turns
             THEN _update_summary(c2, out)
             ELSE c2
        ELSE c1

add_system_message(c, text) == _add_message(c, "SYSTEM", text, "system", [ok |-> TRUE, text |-> << >>])

\* add_message that leaves out a turn whose text is an error placeholder
add_message_drops_errors(c, speaker, text, out) ==
    IF Len(text) > 0 /\ text[1] = "[Error with " THEN c
    ELSE _add_message(c, speaker, text, "response", out)

\* add_message that records only the speakers on the roster
add_message_checked(c, speaker, text, out) ==
    IF \E i \in 1..Len(c.participants) : c.participants[i] = speaker
    THEN _add_message(c, speaker, text, "response", out)
    ELSE c

add_message(c, speaker, text, out) == _add_message(c, speaker, text, "response", out)

\* start_debate that resets the counters and keeps the transcript
start_debate_appending(c, topic, names) ==
    LET c0 == [c EXCEPT !.topic = topic, !.participants = names,
                        !.round = 0, !.summary = << >>, !.turns_since_last_summary = 0]
        c1 == add_system_message(c0, <<"Debate started on '">> \o topic \o <<"'.">>)
    IN  add_system_message(c1, <<"Participants: ">> \o
                               Join([i \in 1..Len(names) |-> <<names[i]>>], <<", ">>))

\* start_debate that clears the transcript and keeps the summary and the counter
start_debate_keeps_summary(c, topic, names) ==
    LET c0 == [c EXCEPT !.topic = topic, !.participants = names, !.history = << >>,
                        !.round = 0]
        c1 == add_system_message(c0, <<"Debate started on '">> \o topic \o <<"'.">>)
    IN  add_system_message(c1, <<"Participants: ">> \o
                               Join([i \in 1..Len(names) |-> <<names[i]>>], <<", ">>))

start_debate(c, topic, names) ==
    LET c0 == [c EXCEPT !.topic = topic, !.participants = names, !.history = << >>,
                        !.round = 0, !.summary = << >>, !.turns_since_last_summary = 0]
        c1 == add_system_message(c0, <<"Debate started on '">> \o topic \o <<"'.">>)
    IN  add_system_message(c1, <<"Participants: ">> \o
                               Join([i \in 1..Len(names) |-> <<names[i]>>], <<", ">>))

\* advance_round that increments the round and records nothing
advance_round_unmarked(c) ==
    [c EXCEPT !.round = @ + 1]

advance_round(c) ==
    LET c1 == [c EXCEPT !.round = @ + 1]
    IN  add_system_message(c1, <<"Round ", ToString(c1.round), " begins.">>)

\* _raw_history without the exclusion of the requester
_raw_history_all(c, exclude) ==
    Join(RenderAll(SelectSeq(c.history, LAMBDA m : m.type # "system")), <<NL>>)

_raw_history(c, exclude) ==
    Join(RenderAll(SelectSeq(c.history,
                             LAMBDA m : m.type # "system" /\ m.agent # exclude)), <<NL>>)

_recent_window(c, exclude) ==
    LET msgs == NonSystem(c.history)
        window == PySliceFrom(msgs, 0 - (c.window_size * 2))
    IN  Join(RenderAll(SelectSeq(window, LAMBDA m : m.agent # exclude)), <<NL>>)

\* context_for that returns an empty summary as it is
context_for_nosentinel(c, requesting_agent) ==
    IF c.mode = FULL THEN _raw_history(c, requesting_agent)
    ELSE IF c.mode = SUMMARIZED THEN c.summary
    ELSE LET recent == _recent_window(c, requesting_agent)
             bits == (IF c.summary # << >>
                        THEN << <<"[Earlier summary]", NL>> \o c.summary >> ELSE << >>)
                     \o (IF recent # << >> THEN <<recent>> ELSE << >>)
             joined == Join(bits, <<NL>>)
         IN  IF joined # << >> THEN joined ELSE <<"[No context]">>

context_for(c, requesting_agent) ==
    IF c.mode = FULL THEN _raw_history(c, requesting_agent)
    ELSE IF c.mode = SUMMARIZED
    THEN (IF c.summary # << >> THEN c.summary ELSE <<"[No summary yet]">>)
    ELSE LET recent == _recent_window(c, requesting_agent)
             bits == (IF c.summary # << >>
                        THEN << <<"[Earlier summary]", NL>> \o c.summary >> ELSE << >>)
                     \o (IF recent # << >> THEN <<recent>> ELSE << >>)
             joined == Join(bits, <<NL>>)
         IN  IF joined # << >> THEN joined ELSE <<"[No context]">>

(***************************************************************************)
(* DebateAgent                                                             *)
(***************************************************************************)
\* get_creative_config returns a plain dict
get_creative_config(stg, word_limits) ==
    [ type |-> "dict",
      max_tokens |-> IF word_limits # None /\ stg \in DOMAIN word_limits
                     THEN word_limits[stg].tokens ELSE 500 ]

\* The result of one model_provider.generate_content call.
GenOutcomes ==
    { [ok |-> TRUE, text |-> <<"arg">>],
      [ok |-> FALSE, text |-> <<"E">>] }

\* The result of the retriever's queries for one prompt.
QueryOutcomes == {"hit", "empty", "raise"}

\* What the environment does during one respond call.
RespondInputs == [gen : GenOutcomes, query : QueryOutcomes, drift : BOOLEAN]

\* The plain way: retrieval finds nothing, generation returns, no correction.
Nominal == [gen |-> [ok |-> TRUE, text |-> <<"arg">>], query |-> "empty", drift |-> FALSE]

\* DebateAgent.get_knowledge_retriever: the new value of _knowledge_retriever,
\* or the exception of the constructor
get_knowledge_retriever(retriever, rag) ==
    IF retriever # None THEN [raised |-> FALSE, retriever |-> retriever]
    ELSE IF rag = "ok" THEN [raised |-> FALSE, retriever |-> "obj"]
    ELSE IF rag = "absent" THEN [raised |-> FALSE, retriever |-> "False"]   \* ImportError
    ELSE [raised |-> TRUE, retriever |-> None]    \* the constructor raises: not caught

\* DebateAgent.retrieve_knowledge
retrieve_knowledge(agent, retriever, rag, use_rag, query) ==
    IF ~use_rag \/ agent.knowledge_domain = None
    THEN [raised |-> FALSE, retriever |-> retriever, knowledge |-> << >>]
    ELSE LET g == get_knowledge_retriever(retriever, rag)
         IN  IF g.raised THEN [raised |-> TRUE, retriever |-> g.retriever, knowledge |-> << >>]
             ELSE IF g.retriever = "False"
             THEN [raised |-> FALSE, retriever |-> g.retriever, knowledge |-> << >>]
             ELSE [raised |-> FALSE, retriever |-> g.retriever,
                   knowledge |-> IF query = "hit"
                                 THEN <<"[Knowledge from ", agent.knowledge_domain, " domain:]",
                                        NL, "1. ", "K", "...">>
                                 ELSE << >>]

\* DebateAgent.build_prompt
build_prompt(agent, retriever, rag, topic, context, stg, use_rag, query) ==
    LET k == IF use_rag /\ agent.knowledge_domain # None
             THEN retrieve_knowledge(agent, retriever, rag, use_rag, query)
             ELSE [raised |-> FALSE, retriever |-> retriever, knowledge |-> << >>]
        lines == << <<"You are ", agent.name>>, <<"Topic: ">> \o topic >>
                 \o (IF k.knowledge # << >>
                       THEN << <<"YOUR DOMAIN KNOWLEDGE BASE:">>, k.knowledge >> ELSE << >>)
                 \o << <<"stage:", stg>> >>
                 \o (IF context # << >>
                       THEN << <<NL, "Previous discussion:", NL>> \o context >> ELSE << >>)
                 \o << <<"Your response:">> >>
    IN  [raised |-> k.raised, retriever |-> k.retriever, knowledge |-> k.knowledge,
         prompt |-> Join(lines, <<NL>>)]

FormalTokens == {"herein", "furthermore", "nonetheless", "wherein", "thereby", "thus", "hence"}

Casual(tok) ==
    CASE tok = "herein" -> "here"
      [] tok = "furthermore" -> "also"
      [] tok = "nonetheless" -> "however"
      [] tok = "wherein" -> "where"
      [] tok \in {"thereby", "thus", "hence"} -> "so"
      [] OTHER -> tok

\* DebateAgent.clean_response: drop a leading "As <name>," opener, replace
\* the formal words, strip
clean_response(response) ==
    LET body == IF Len(response) > 0 /\ response[1] = "As X, " THEN Tail(response) ELSE response
    IN  Strip([i \in 1..Len(body) |-> Casual(body[i])])

\* HybridDomainController.assess_domain_drift: similarities[agent_domain]
\* raises KeyError when the agent has no domain
assess_domain_drift(response, agent_domain, drift) ==
    IF agent_domain = None THEN [raised |-> TRUE, exc |-> None, drift_detected |-> FALSE]
    ELSE [raised |-> FALSE, exc |-> None, drift_detected |-> drift]

\* HybridDomainController.apply_technical_correction
apply_technical_correction(response, agent_domain, drift_detected) ==
    IF ~drift_detected THEN [raised |-> FALSE, text |-> response]
    ELSE IF Len(response) > 0 /\ response[1] \in {"from", "in ", "as ", "while"}
    THEN [raised |-> FALSE, text |-> response]
    ELSE IF Len(response) = 0 THEN [raised |-> TRUE, text |-> <<"string index out of range">>]
    ELSE [raised |-> FALSE, text |-> <<"From a clinical standpoint, ">> \o response]

ProviderName == "Gemini"

ErrorWith(e) == <<"[Error with ", ProviderName, ": ">> \o e \o <<"]">>

\* respond without the try/except around the generation call
respond_uncaught(agent, retriever, rag, topic, context, stg, use_rag, in) ==
    IF agent.model_provider = None
    THEN [raised |-> FALSE, text |-> <<"[Error: No model provider set for ", agent.name, "]">>,
          retriever |-> retriever, knowledge |-> << >>, generated |-> FALSE, prompt |-> << >>]
    ELSE LET b == build_prompt(agent, retriever, rag, topic, context, stg, use_rag, in.query)
             a == assess_domain_drift(in.gen.text, agent.knowledge_domain, in.drift)
             t == apply_technical_correction(in.gen.text, agent.knowledge_domain,
                                             a.drift_detected)
         IN  IF b.raised
             THEN [raised |-> TRUE, text |-> << >>, retriever |-> b.retriever,
                   knowledge |-> << >>, generated |-> FALSE, prompt |-> << >>]
             ELSE [raised |-> ~in.gen.ok \/ a.raised \/ t.raised,
                   text |-> IF ~in.gen.ok \/ a.raised \/ t.raised THEN << >>
                            ELSE clean_response(t.text),
                   retriever |-> b.retriever, knowledge |-> b.knowledge,
                   generated |-> TRUE, prompt |-> b.prompt]

\* DebateAgent.respond.  The result: raised (an exception leaves respond),
\* text (the returned string), the agent's retriever afterwards, and what
\* the call did (knowledge put in the prompt, whether generation was called).
respond(agent, retriever, rag, topic, context, stg, use_rag, in) ==
    IF agent.model_provider = None
    THEN [raised |-> FALSE, text |-> <<"[Error: No model provider set for ", agent.name, "]">>,
          retriever |-> retriever, knowledge |-> << >>, generated |-> FALSE, prompt |-> << >>]
    ELSE LET b == build_prompt(agent, retriever, rag, topic, context, stg, use_rag, in.query)
             a == assess_domain_drift(in.gen.text, agent.knowledge_domain, in.drift)
             t == apply_technical_correction(in.gen.text, agent.knowledge_domain,
                                             a.drift_detected)
         IN  IF b.raised
             THEN [raised |-> TRUE, text |-> << >>, retriever |-> b.retriever,
                   knowledge |-> << >>, generated |-> FALSE, prompt |-> << >>]
             ELSE [raised |-> FALSE,
                   text |-> IF ~in.gen.ok THEN ErrorWith(in.gen.text)
                            ELSE IF a.raised THEN ErrorWith(<<a.exc>>)
                            ELSE IF t.raised THEN ErrorWith(t.text)
                            ELSE clean_response(t.text),
                   retriever |-> b.retriever, knowledge |-> b.knowledge,
                   generated |-> TRUE, prompt |-> b.prompt]

(***************************************************************************)
(* BatchDebateProcessor                                                    *)
(***************************************************************************)
RECURSIVE SplitOn(_, _)
\* text.split(sep) for a one-token separator: the pieces between separators
SplitOn(text, sep) ==
    IF \A i \in 1..Len(text) : text[i] # sep THEN <<text>>
    ELSE LET k == CHOOSE i \in 1..Len(text) :
                    text[i] = sep /\ \A j \in 1..(i - 1) : text[j] # sep
         IN  <<SubSeq(text, 1, k - 1)>> \o SplitOn(SubSeq(text, k + 1, Len(text)), sep)

LABEL == "AGENT_"

Digits == {"0", "1", "2", "3", "4", "5", "6", "7", "8", "9"}

DigitValue(d) ==
    CASE d = "0" -> 0 [] d = "1" -> 1 [] d = "2" -> 2 [] d = "3" -> 3 [] d = "4" -> 4
      [] d = "5" -> 5 [] d = "6" -> 6 [] d = "7" -> 7 [] d = "8" -> 8 [] d = "9" -> 9

\* line.split('_')[1].split(':')[0] of a line that starts with AGENT_: what
\* stands between the first underscore and the next underscore or colon
LabelField(line) ==
    LET rest == Tail(line)
        stops == {i \in 1..Len(rest) : rest[i] \in {":", LABEL}}
        stop == IF stops = {} THEN Len(rest) + 1
                ELSE CHOOSE i \in stops : \A j \in stops : i <= j
    IN  SubSeq(rest, 1, stop - 1)

\* int(s): the value, or ValueError
ParseInt(field) ==
    LET f == Strip(field)
    IN  IF Len(f) = 1 /\ f[1] \in Digits THEN [ok |-> TRUE, value |-> DigitValue(f[1])]
        ELSE [ok |-> FALSE, value |-> 0]

\* line.split(':', 1)[1].strip() if ':' in line else ''
ResponsePart(line) ==
    LET colons == {i \in 1..Len(line) : line[i] = ":"}
    IN  IF colons = {} THEN << >>
        ELSE LET k == CHOOSE i \in colons : \A j \in colons : i <= j
             IN  Strip(SubSeq(line, k + 1, Len(line)))

\* responses[current_agent] = ' '.join(current_response).strip()
SaveCurrent(st) ==
    IF st.current_agent # None /\ st.current_response # << >>
    THEN [st EXCEPT !.responses =
            [n \in (DOMAIN st.responses) \cup {st.current_agent} |->
                IF n = st.current_agent THEN Strip(Join(st.current_response, <<" ">>))
                ELSE st.responses[n]]]
    ELSE st

\* the body of `for line in lines` of parse_batch_response
ParseLine(st, rawline, agents) ==
    LET line == Strip(rawline)
    IN  IF Len(line) > 0 /\ line[1] = LABEL
        THEN LET saved == SaveCurrent(st)
                 num == ParseInt(LabelField(line))
                 agent_num == num.value - 1
                 response_part == ResponsePart(line)
             IN  IF ~num.ok THEN saved                      \* ValueError: continue
                 ELSE IF 0 <= agent_num /\ agent_num < Len(agents)
                 THEN [saved EXCEPT
                         !.current_agent = agents[agent_num + 1].name,
                         !.current_response = IF response_part # << >>
                                              THEN <<response_part>> ELSE << >>]
                 ELSE saved
        ELSE IF st.current_agent # None /\ Len(line) > 0
        THEN [st EXCEPT !.current_response = Append(@, line)]
        ELSE st

RECURSIVE ParseLines(_, _, _)
ParseLines(st, lines, agents) ==
    IF Len(lines) = 0 THEN st
    ELSE ParseLines(ParseLine(st, lines[1], agents), Tail(lines), agents)

ParsePlaceholder(name) == <<"[Batch response parsing incomplete for ", name, "]">>

EmptyDict == [n \in {} |-> << >>]

\* parse_batch_response that discards every parsed entry when one is missing
parse_batch_response_wholesale(text, agents) ==
    LET lines == SplitOn(Strip(text), NL)
        st == SaveCurrent(ParseLines([responses |-> EmptyDict, current_agent |-> None,
                                      current_response |-> << >>], lines, agents))
        responses == st.responses
        names == {agents[i].name : i \in 1..Len(agents)}
    IN  IF Cardinality(DOMAIN responses) # Len(agents)
        THEN [n \in names |-> ParsePlaceholder(n)]
        ELSE responses

\* parse_batch_response without the filling of the missing entries
parse_batch_response_unfilled(text, agents) ==
    LET lines == SplitOn(Strip(text), NL)
        st == SaveCurrent(ParseLines([responses |-> EmptyDict, current_agent |-> None,
                                      current_response |-> << >>], lines, agents))
    IN  st.responses

\* BatchDebateProcessor.parse_batch_response: a dict from names to texts
parse_batch_response(text, agents) ==
    LET lines == SplitOn(Strip(text), NL)
        st == SaveCurrent(ParseLines([responses |-> EmptyDict, current_agent |-> None,
                                      current_response |-> << >>], lines, agents))
        responses == st.responses
        names == {agents[i].name : i \in 1..Len(agents)}
    IN  IF Cardinality(DOMAIN responses) # Len(agents)
        THEN [n \in (DOMAIN responses) \cup names |->
                IF n \in DOMAIN responses THEN responses[n] ELSE ParsePlaceholder(n)]
        ELSE responses

RECURSIVE FallbackFrom(_, _, _, _, _, _, _, _)
\* BatchDebateProcessor._fallback_individual_calls, from agent i on: respond
\* is called with its default use_rag=True, and what it raises is caught
FallbackFrom(i, agents, retr, rag, topic, context, stg, ins) ==
    IF i > Len(agents) THEN [responses |-> EmptyDict, retrievers |-> retr, calls |-> << >>]
    ELSE LET res == respond(agents[i], retr[i], rag, topic, context, stg, TRUE, ins[i])
             rest == FallbackFrom(i + 1, agents, [retr EXCEPT ![i] = res.retriever],
                                  rag, topic, context, stg, ins)
             mine == IF res.raised THEN <<"[Error generating response: ", "rag", "]">>
                     ELSE res.text
         IN  [responses |-> [n \in (DOMAIN rest.responses) \cup {agents[i].name} |->
                               IF n \in DOMAIN rest.responses THEN rest.responses[n]
                               ELSE mine],
              retrievers |-> rest.retrievers,
              calls |-> << [agent |-> agents[i].name, context |-> context, stage |-> stg,
                            use_rag |-> TRUE] >> \o rest.calls]

_fallback_individual_calls(agents, retr, rag, topic, context, stg, ins) ==
    FallbackFrom(1, agents, retr, rag, topic, context, stg, ins)

\* The result of the one model.generate_content call of a batch.
BatchOutcomes ==
    { [ok |-> TRUE, text |-> <<LABEL, "1", ":", " ", "a", NL, LABEL, "2", ":", " ", "b">>],
      [ok |-> FALSE, text |-> <<"E">>] }

\* BatchDebateProcessor.batch_respond.  config is the dict of
\* get_creative_config, and `config.max_output_tokens` reads an attribute of it
\* before the try block is entered.
batch_respond(agents, retr, rag, topic, context, stg, word_limits, batch, ins) ==
    LET config == get_creative_config(stg, word_limits)
    IN  IF config.type = "dict"
        THEN [raised |-> TRUE, exc |-> "AttributeError", responses |-> EmptyDict,
              retrievers |-> retr, fallback |-> FALSE, generated |-> FALSE,
              calls |-> << >>]
        ELSE IF batch.ok
        THEN [raised |-> FALSE, exc |-> None,
              responses |-> parse_batch_response(batch.text, agents),
              retrievers |-> retr, fallback |-> FALSE, generated |-> TRUE,
              calls |-> << >>]
        ELSE \* the except branch: the responses, retrievers and calls of the fallback
             [raised |-> FALSE, exc |-> None, fallback |-> TRUE, generated |-> TRUE]
             @@ _fallback_individual_calls(agents, retr, rag, topic, context, stg, ins)

(***************************************************************************)
(* UserVsAIController                                                      *)
(***************************************************************************)
\* self.max_rounds = 4  # Opening, 2 rebuttals, closing
UserVsAIRounds == 4

\* UserVsAIController.__init__.  Beside the fields of the object the record
\* holds the _knowledge_retriever of each agent, the position of run() (pc,
\* round_num) and two counters of what has happened: quit (the user has
\* entered quit or exit) and faults (generation failures so far).
UserVsAIController(ai_agents, user_goes_first, use_rag) ==
    [ ai_agents |-> ai_agents,
      topic |-> <<"T">>,
      user_goes_first |-> user_goes_first,
      use_rag |-> use_rag,
      debate_history |-> << >>,
      current_round |-> 0,
      max_rounds |-> UserVsAIRounds,
      retrievers |-> [i \in 1..Len(ai_agents) |-> None],
      pc |-> "none",
      round_num |-> 0,
      quit |-> FALSE,
      faults |-> 0 ]

NoUserDebate == UserVsAIController(<< >>, TRUE, FALSE)

\* UserVsAIController._get_stage
_get_stage(round_num) ==
    LET stages == <<"opening", "rebuttal", "rebuttal", "closing">>
    IN  IF round_num < Len(stages) THEN stages[round_num + 1] ELSE "closing"

\* str.lower() of the words a user types
Lower(text) ==
    [i \in 1..Len(text) |->
        CASE text[i] \in {"quit", "Quit", "QUIT"} -> "quit"
          [] text[i] \in {"exit", "Exit"} -> "exit"
          [] text[i] \in {"skip", "Skip"} -> "skip"
          [] OTHER -> text[i]]

\* What the input loop of _handle_user_turn can leave in user_response.
UserResponses == { <<"arg">>, <<"Quit">>, <<"exit">>, <<"skip">>, << >> }

\* UserVsAIController._handle_user_turn, after the input loop has read
\* user_response (length limits off): the object afterwards.  The method
\* returns False on quit or exit and True otherwise.
_handle_user_turn(u, stg, user_response) ==
    IF Lower(user_response) \in {<<"quit">>, <<"exit">>}
    THEN [returned |-> FALSE, u |-> u]
    ELSE LET text == IF Lower(user_response) = <<"skip">> THEN <<"[User skipped this round]">>
                     ELSE IF user_response = << >> THEN <<"[No response provided]">>
                     ELSE user_response
         IN  [returned |-> TRUE,
              u |-> [u EXCEPT !.debate_history =
                        Append(@, [round |-> u.current_round + 1, stage |-> stg,
                                   speaker |-> "User", response |-> text])]]

\* response[:200] + ("..." if len(response) > 200 else "")
Truncated(response) ==
    IF Len(response) > 200 THEN SubSeq(response, 1, 200) \o <<"...">> ELSE response

\* UserVsAIController._build_context
_build_context(u) ==
    LET recent_history == PySliceFrom(u.debate_history, 0 - 6)
    IN  Join([i \in 1..Len(recent_history) |->
                <<recent_history[i].speaker, ": ">> \o Truncated(recent_history[i].response)],
             <<NL>>)

RECURSIVE AITurnsFrom(_, _, _, _, _, _)
\* `for i, agent in enumerate(self.ai_agents)` of _handle_ai_turns, from agent
\* i on: the response is stored, or the error message when respond raises
AITurnsFrom(u, i, stg, context, rag, ins) ==
    IF i > Len(u.ai_agents) THEN u
    ELSE LET agent == u.ai_agents[i]
             res == respond(agent, u.retrievers[i], rag, u.topic, context, stg, u.use_rag,
                            ins[i])
         IN  AITurnsFrom(
                 [u EXCEPT !.retrievers[i] = res.retriever,
                           !.debate_history =
                               Append(@, [round |-> u.current_round + 1, stage |-> stg,
                                          speaker |-> agent.name,
                                          response |->
                                              IF res.raised
                                              THEN <<"[Error: ", agent.name,
                                                     " failed to respond - ", "rag", "]">>
                                              ELSE res.text])],
                 i + 1, stg, context, rag, ins)

\* UserVsAIController._handle_ai_turns
_handle_ai_turns(u, stg, rag, ins) == AITurnsFrom(u, 1, stg, _build_context(u), rag, ins)

(***************************************************************************)
(* The Streamlit front end (streamlit_app.py)                              *)
(***************************************************************************)
\* for round_num in range(4):  # 4 total rounds
FullDebateRounds == 4

\* initialize_session_state.  Beside the keys of st.session_state the record
\* holds the _knowledge_retriever of each agent and two counters of what has
\* happened: clicks (buttons pressed) and faults (generation failures).
NoSession ==
    [ debate_started |-> FALSE,
      agents |-> << >>,
      topic |-> << >>,
      settings |-> [use_rag |-> FALSE],
      debate_history |-> << >>,
      current_round |-> 0,
      retrievers |-> << >>,
      clicks |-> 0,
      faults |-> 0 ]

\* start_debate(topic, agents, model_provider, settings) of streamlit_app.py
session_start_debate(ss, topic, agents, settings) ==
    [ss EXCEPT !.debate_started = TRUE,
               !.agents = agents,
               !.topic = topic,
               !.settings = settings,
               !.debate_history = << >>,
               !.current_round = 0,
               !.retrievers = [i \in 1..Len(agents) |-> None]]

\* reset_debate
reset_debate(ss) ==
    [ss EXCEPT !.debate_started = FALSE, !.debate_history = << >>, !.current_round = 0]

\* "\n".join(f"{h['agent']}: {h['response'][:200]}..." for h in debate_history[-3:])
RoundContext(ss) ==
    LET recent == PySliceFrom(ss.debate_history, 0 - 3)
    IN  Join([i \in 1..Len(recent) |->
                <<recent[i].agent, ": ">>
                \o SubSeq(recent[i].response, 1, Min2(200, Len(recent[i].response)))
                \o <<"...">>],
             <<NL>>)

RECURSIVE RoundResponsesFrom(_, _, _, _, _, _)
\* `for i, agent in enumerate(agents)` of run_debate_round, from agent i on:
\* round_responses and the agents' retrievers; an agent whose respond raises
\* gets an error box and no entry
RoundResponsesFrom(ss, i, stg, retr, rag, ins) ==
    IF i > Len(ss.agents) THEN [round_responses |-> << >>, retrievers |-> retr]
    ELSE LET agent == ss.agents[i]
             res == respond(agent, retr[i], rag, ss.topic, RoundContext(ss), stg,
                            ss.settings.use_rag, ins[i])
             rest == RoundResponsesFrom(ss, i + 1, stg, [retr EXCEPT ![i] = res.retriever],
                                        rag, ins)
         IN  [rest EXCEPT !.round_responses =
                (IF res.raised THEN << >>
                 ELSE << [round |-> ss.current_round + 1, stage |-> stg,
                          agent |-> agent.name, response |-> res.text] >>) \o @]

\* run_debate_round
run_debate_round(ss, rag, ins) ==
    LET current_round == ss.current_round
        stg == IF current_round = 0 THEN "opening"
               ELSE IF current_round < 3 THEN "rebuttal"
               ELSE "closing"
        round == RoundResponsesFrom(ss, 1, stg, ss.retrievers, rag, ins)
    IN  [ss EXCEPT !.debate_history = @ \o round.round_responses,
                   !.current_round = @ + 1,
                   !.retrievers = round.retrievers]

RECURSIVE FullDebateFrom(_, _, _, _)
\* `for round_num in range(4)` of run_full_debate, from round_num on
FullDebateFrom(ss, round_num, rag, ins) ==
    IF round_num >= FullDebateRounds THEN ss
    ELSE FullDebateFrom(IF ss.current_round <= round_num
                        THEN run_debate_round(ss, rag, ins) ELSE ss,
                        round_num + 1, rag, ins)

\* run_full_debate
run_full_debate(ss, rag, ins) == FullDebateFrom(ss, 0, rag, ins)

(***************************************************************************)
(* DebateController                                                        *)
(***************************************************************************)
DefaultWindowSize == 3
DefaultSummaryEvery == 6

Names == <<"Ann", "Bob", "Cy", "Dee", "Eve", "Fay", "Gus", "Hal", "Ida">>

RosterVariants == {"domains", "mixed"}

\* The agents a roster is drawn from.  In the "mixed" roster the first agent
\* has a role that maps to no knowledge domain and the third was given no
\* model provider.  In the "namesake" roster the second agent is called
\* "shared".
AgentAt(variant, i) ==
    [ name |-> IF variant = "namesake" /\ i = 2 THEN "shared" ELSE Names[i],
      knowledge_domain |-> IF variant = "mixed" /\ i = 1 THEN None ELSE "medical",
      model_provider |-> IF variant = "mixed" /\ i = 3 THEN None ELSE ProviderName ]

Roster(variant, n) == [i \in 1..n |-> AgentAt(variant, i)]

AgentNames(agents) == [i \in 1..Len(agents) |-> agents[i].name]

NoCall == [made |-> FALSE, agent |-> None, context |-> << >>, stage |-> None,
           use_rag |-> FALSE, knowledge |-> << >>, text |-> << >>, raised |-> FALSE,
           gen_ok |-> TRUE, generated |-> FALSE, round |-> 0, at |-> 0, turns |-> 0]

NoBatch == [made |-> FALSE, gen_ok |-> TRUE, raised |-> FALSE, exc |-> None,
            fallback |-> FALSE, keys |-> {}, context |-> << >>, stage |-> None,
            calls |-> << >>, sequential |-> << >>, log |-> << >>]

NoSummary == [ok |-> TRUE, text |-> << >>]

NoCtx == [made |-> FALSE, who |-> None, text |-> << >>,
          previous |-> [made |-> FALSE, text |-> << >>]]

\* DebateController.__init__ followed by nothing: the state run() starts from.
\* __init__ gives the ConversationManager its default window and threshold;
\* with use_rag it constructs a KnowledgeRetriever: an ImportError clears
\* use_rag (any other exception leaves __init__ and no controller exists).
InitController ==
    \E variant \in RosterVariants, n \in 0..MaxAgents, mode \in ContextMode,
       max_rounds \in 1..MaxRounds, use_batching \in BOOLEAN, want_rag \in BOOLEAN,
       rag \in {"ok", "absent"} :
        /\ cfg = [agents |-> Roster(variant, n), topic |-> <<"T">>,
                  max_rounds |-> max_rounds, use_batching |-> use_batching,
                  use_rag |-> (want_rag /\ rag = "ok"), word_limits |-> None]
        /\ env = [rag |-> rag]
        /\ cm = start_debate(ConversationManager(mode, DefaultWindowSize, DefaultSummaryEvery),
                             <<"T">>, AgentNames(Roster(variant, n)))
        /\ retrievers = [i \in 1..n |-> None]

Init ==
    /\ InitController
    /\ pc = "created"
    /\ stage = None
    /\ r = 0
    /\ idx = 0
    /\ shared_context = [none |-> TRUE, text |-> << >>]
    /\ faults = 0
    /\ stageLog = << >>
    /\ lastCall = NoCall
    /\ lastBatch = NoBatch
    /\ abort = None
    /\ runs = 1
    /\ lastCtx = NoCtx
    /\ calls = 0
    /\ response_text = << >>
    /\ user_debate = NoUserDebate
    /\ session_state = NoSession
    /\ parsed = [made |-> FALSE, responses |-> EmptyDict]

\* where control goes once `for agent in self.agents` is at position i
AfterTurn(i) == IF i > Len(cfg.agents) THEN "next" ELSE "individual"

\* the rounds played sequentially for the rest of the session once a batched
\* call has failed
BeginRound_sticky(stg, batch_context_is_shared) ==
    LET c == advance_round(cm)
    IN  /\ cm' = c
        /\ stage' = stg
        /\ stageLog' = Append(stageLog, stg)
        /\ idx' = 1
        /\ IF cfg.use_batching /\ ~lastBatch.fallback
           THEN /\ pc' = "batch"
                /\ shared_context' = [none |-> FALSE,
                                      text |-> IF batch_context_is_shared
                                               THEN context_for(c, "shared") ELSE << >>]
           ELSE /\ pc' = AfterTurn(1)
                /\ shared_context' = IF stg = "opening" THEN [none |-> FALSE, text |-> << >>]
                                     ELSE [none |-> TRUE, text |-> << >>]
        /\ UNCHANGED <<cfg, env, retrievers, faults, lastCall, lastBatch, abort, runs,
                       lastCtx, calls, response_text, uiVars, parsed>>

\* the rounds begun with a context computed once for the whole round, whatever
\* the strategy
BeginRound_snapshot(stg, batch_context_is_shared) ==
    LET c == advance_round(cm)
    IN  /\ cm' = c
        /\ stage' = stg
        /\ stageLog' = Append(stageLog, stg)
        /\ idx' = 1
        /\ IF cfg.use_batching
           THEN /\ pc' = "batch"
                /\ shared_context' = [none |-> FALSE,
                                      text |-> IF batch_context_is_shared
                                               THEN context_for(c, "shared") ELSE << >>]
           ELSE /\ pc' = AfterTurn(1)
                /\ shared_context' = IF stg = "opening" THEN [none |-> FALSE, text |-> << >>]
                                     ELSE [none |-> FALSE, text |-> context_for(c, "shared")]
        /\ UNCHANGED <<cfg, env, retrievers, faults, lastCall, lastBatch, abort, runs,
                       lastCtx, calls, response_text, uiVars, parsed>>

\* the part common to _opening_statements, _rebuttal_round and _closing_round:
\* advance_round, then the choice of strategy and of the context argument
BeginRound(stg, batch_context_is_shared) ==
    LET c == advance_round(cm)
    IN  /\ cm' = c
        /\ stage' = stg
        /\ stageLog' = Append(stageLog, stg)
        /\ idx' = 1
        /\ IF cfg.use_batching
           THEN /\ pc' = "batch"
                /\ shared_context' = [none |-> FALSE,
                                      text |-> IF batch_context_is_shared
                                               THEN context_for(c, "shared") ELSE << >>]
           ELSE /\ pc' = AfterTurn(1)
                /\ shared_context' = IF stg = "opening" THEN [none |-> FALSE, text |-> << >>]
                                     ELSE [none |-> TRUE, text |-> << >>]
        /\ UNCHANGED <<cfg, env, retrievers, faults, lastCall, lastBatch, abort, runs,
                       lastCtx, calls, response_text, uiVars, parsed>>

\* _opening_statements followed by a rebuttal loop that starts at 1
_opening_statements_from_one ==
    /\ pc = "created"
    /\ r' = 1
    /\ BeginRound("opening", FALSE)

\* run(): self._opening_statements()
_opening_statements ==
    /\ pc = "created"
    /\ r' = 2
    /\ BeginRound("opening", FALSE)

\* run(): for r in range(2, self.max_rounds): self._rebuttal_round(r)
_rebuttal_round ==
    /\ pc = "next"
    /\ stage \in {"opening", "rebuttal"}
    /\ r < cfg.max_rounds
    /\ r' = r + 1
    /\ BeginRound("rebuttal", TRUE)

\* run(): self._closing_round()
_closing_round ==
    /\ pc = "next"
    /\ stage \in {"opening", "rebuttal"}
    /\ r >= cfg.max_rounds
    /\ r' = r
    /\ BeginRound("closing", TRUE)

\* The summariser is consulted by add_message only when the append reaches the
\* threshold in a summarising mode: the outcomes to consider for one append.
CompactionOutcomes(c) ==
    IF c.mode \in {HYBRID, SUMMARIZED}
       /\ c.turns_since_last_summary + 1 >= c.summary_every_n_turns
    THEN SummaryOutcomes ELSE {NoSummary}

\* The environments to consider for one sequential turn: the retriever is
\* queried only for an agent with a domain when use_rag is on, the provider
\* only when the agent has one.  The drift heuristic stays quiet during a run.
TurnInputs(agent) ==
    { in \in RespondInputs :
        /\ (in.query # "empty" => cfg.use_rag /\ agent.knowledge_domain # None)
        /\ (in # Nominal => agent.model_provider # None)
        /\ ~in.drift }

\* one iteration of `for agent in self.agents` of _individual_round
_individual_round ==
    /\ pc = "individual"
    /\ \E in \in TurnInputs(cfg.agents[idx]), out \in CompactionOutcomes(cm) :
        LET agent == cfg.agents[idx]
            context == IF ~shared_context.none THEN shared_context.text
                       ELSE context_for(cm, agent.name)
            res == respond(agent, retrievers[idx], env.rag, cfg.topic, context, stage,
                           cfg.use_rag, in)
            fault == res.generated /\ (~in.gen.ok \/ in.drift)
        IN  /\ fault => faults < MaxFaults
            /\ faults' = IF fault THEN faults + 1 ELSE faults
            /\ retrievers' = [retrievers EXCEPT ![idx] = res.retriever]
            /\ lastCall' = [made |-> TRUE, agent |-> agent.name, context |-> context,
                            stage |-> stage, use_rag |-> cfg.use_rag,
                            knowledge |-> res.knowledge, text |-> res.text,
                            raised |-> res.raised, gen_ok |-> in.gen.ok,
                            generated |-> res.generated, round |-> cm.round,
                            at |-> Len(cm.history),
                            turns |-> Len(NonSystem(cm.history))]
            /\ IF res.raised
               THEN /\ pc' = "aborted"
                    /\ abort' = "respond"
                    /\ UNCHANGED <<cm, idx>>
               ELSE /\ cm' = add_message(cm, agent.name, res.text, out)
                    /\ idx' = idx + 1
                    /\ pc' = AfterTurn(idx + 1)
                    /\ UNCHANGED abort
    /\ UNCHANGED <<cfg, env, stage, r, shared_context, stageLog, lastBatch, runs, lastCtx,
                   calls, response_text, uiVars, parsed>>

RECURSIVE AppendResponses_reversed(_, _, _, _, _)
\* the loop of _batch_round run over the roster from its last agent to its first
AppendResponses_reversed(c, i, agents, responses, out) ==
    IF i > Len(agents) THEN c
    ELSE LET name == agents[Len(agents) + 1 - i].name
             response == IF name \in DOMAIN responses THEN responses[name]
                         ELSE <<"[No response from ", name, "]">>
         IN  AppendResponses_reversed(add_message(c, name, response, out), i + 1, agents,
                                      responses, out)

RECURSIVE AppendResponses(_, _, _, _, _)
\* `for agent in self.agents` of _batch_round, from agent i on
AppendResponses(c, i, agents, responses, out) ==
    IF i > Len(agents) THEN c
    ELSE LET name == agents[i].name
             response == IF name \in DOMAIN responses THEN responses[name]
                         ELSE <<"[No response from ", name, "]">>
         IN  AppendResponses(add_message(c, name, response, out), i + 1, agents, responses, out)

\* What `for agent in self.agents` of _individual_round passes as context to
\* each agent of a round of stage stg that starts on the manager c, when the
\* agents answer with the given responses: the shared context of the opening,
\* and after it context_for(agent.name) on the transcript that holds the
\* turns of the agents before it
SequentialContexts(c, agents, responses, out, stg) ==
    [i \in 1..Len(agents) |->
        IF stg = "opening" THEN << >>
        ELSE context_for(AppendResponses(c, 1, SubSeq(agents, 1, i - 1), responses, out),
                         agents[i].name)]

\* The environments to consider for one call of the sequential fallback.
FallbackInputs == {Nominal, [Nominal EXCEPT !.gen = [ok |-> FALSE, text |-> <<"E">>]]}

\* DebateController._batch_round
_batch_round ==
    /\ pc = "batch"
    /\ \E batch \in BatchOutcomes, ins \in [1..Len(cfg.agents) -> FallbackInputs],
          out \in SummaryOutcomes :
        LET res == batch_respond(cfg.agents, retrievers, env.rag, cfg.topic,
                                 shared_context.text, stage, cfg.word_limits, batch, ins)
        IN  /\ lastBatch' = [made |-> TRUE, gen_ok |-> batch.ok, raised |-> res.raised,
                             exc |-> res.exc, fallback |-> res.fallback,
                             keys |-> DOMAIN res.responses,
                             context |-> shared_context.text, stage |-> stage,
                             calls |-> res.calls,
                             sequential |-> IF res.fallback
                                            THEN SequentialContexts(cm, cfg.agents,
                                                                    res.responses, out, stage)
                                            ELSE << >>,
                             log |-> Append(lastBatch.log,
                                            IF res.raised THEN "raised"
                                            ELSE IF res.fallback THEN "fallback"
                                            ELSE "batched")]
            /\ retrievers' = res.retrievers
            /\ IF res.raised
               THEN /\ pc' = "aborted"
                    /\ abort' = res.exc
                    /\ UNCHANGED cm
               ELSE /\ cm' = AppendResponses(cm, 1, cfg.agents, res.responses, out)
                    /\ pc' = "next"
                    /\ UNCHANGED abort
    /\ UNCHANGED <<cfg, env, stage, r, idx, shared_context, faults, stageLog, lastCall,
                   runs, lastCtx, calls, response_text, uiVars, parsed>>

\* run(): self._summary(); its statistics divide by len(agents) * max_rounds
\* when batching is on
_summary ==
    /\ pc = "next"
    /\ stage = "closing"
    /\ IF cfg.use_batching /\ Len(cfg.agents) * cfg.max_rounds = 0
       THEN pc' = "aborted" /\ abort' = "ZeroDivisionError"
       ELSE pc' = "done" /\ UNCHANGED abort
    /\ UNCHANGED <<cfg, env, cm, stage, r, idx, shared_context, retrievers, faults,
                   stageLog, lastCall, lastBatch, runs, lastCtx, calls, response_text, uiVars,
                   parsed>>

Next ==
    \/ _opening_statements
    \/ _rebuttal_round
    \/ _closing_round
    \/ _individual_round
    \/ _batch_round
    \/ _summary

Spec == Init /\ [][Next]_vars

\* the position of run(): where control is, the loop indices and the stage
position == <<pc, idx, r, stage>>

\* run() moves on from a position where it has something left to do (every
\* step of Next changes the position)
Proceeds ==
    /\ pc \in {"created", "individual", "batch", "next"}
    /\ pc' \in {"created", "individual", "batch", "next", "done", "aborted"}
    /\ idx' \in {idx, idx + 1, 1}
    /\ r' \in {r, r + 1, 2}
    /\ stage' \in {stage, "opening", "rebuttal", "closing"}

\* run() is one thread of control that is never suspended: while it has a
\* next step, it eventually takes one
SpecLive == Init /\ [][Next]_vars /\ WF_position(Proceeds)

(***************************************************************************)
(* The controller with a caller that may invoke run() again once it has    *)
(* returned.                                                               *)
(***************************************************************************)
\* controller.run() on a controller whose run() has returned: run() starts
\* with _opening_statements whatever the controller has done before, on the
\* ConversationManager __init__ created
run ==
    /\ pc = "done"
    /\ runs < MaxRuns
    /\ runs' = runs + 1
    /\ pc' = "created"
    /\ UNCHANGED <<cfg, env, cm, stage, r, idx, shared_context, retrievers, faults,
                   stageLog, lastCall, lastBatch, abort, lastCtx, calls, response_text, uiVars,
                   parsed>>

NextRerun ==
    \/ Next
    \/ run

SpecRerun == Init /\ [][NextRerun]_vars

(***************************************************************************)
(* The batched controller whose batch_respond reaches its try block: in    *)
(* each round the batched call either returns a reply, which is parsed, or *)
(* raises, and batch_respond hands the round to                            *)
(* _fallback_individual_calls.                                             *)
(***************************************************************************)
InitFallback ==
    /\ \E variant \in RosterVariants \cup {"namesake"}, n \in 0..MaxAgents,
          mode \in ContextMode, max_rounds \in 1..MaxRounds, want_rag \in BOOLEAN,
          rag \in {"ok", "absent"} :
        /\ cfg = [agents |-> Roster(variant, n), topic |-> <<"T">>,
                  max_rounds |-> max_rounds, use_batching |-> TRUE,
                  use_rag |-> (want_rag /\ rag = "ok"), word_limits |-> None]
        /\ env = [rag |-> rag]
        /\ cm = start_debate(ConversationManager(mode, DefaultWindowSize, DefaultSummaryEvery),
                             <<"T">>, AgentNames(Roster(variant, n)))
        /\ retrievers = [i \in 1..n |-> None]
    /\ pc = "created"
    /\ stage = None
    /\ r = 0
    /\ idx = 0
    /\ shared_context = [none |-> TRUE, text |-> << >>]
    /\ faults = 0
    /\ stageLog = << >>
    /\ lastCall = NoCall
    /\ lastBatch = NoBatch
    /\ abort = None
    /\ runs = 1
    /\ lastCtx = NoCtx
    /\ calls = 0
    /\ response_text = << >>
    /\ user_debate = NoUserDebate
    /\ session_state = NoSession
    /\ parsed = [made |-> FALSE, responses |-> EmptyDict]

\* _batch_round when batch_respond's generation call has raised: the except
\* branch returns _fallback_individual_calls(agents, topic, context, stage,
\* word_limits), and the loop of _batch_round appends its entries
FallbackRound ==
    /\ pc = "batch"
    /\ \E ins \in [1..Len(cfg.agents) -> FallbackInputs], out \in SummaryOutcomes :
        LET f == _fallback_individual_calls(cfg.agents, retrievers, env.rag, cfg.topic,
                                            shared_context.text, stage, ins)
            failures == Cardinality({i \in 1..Len(cfg.agents) : ~ins[i].gen.ok})
        IN  /\ faults + failures <= MaxFaults
            /\ faults' = faults + failures
            /\ lastBatch' = [made |-> TRUE, gen_ok |-> FALSE, raised |-> FALSE,
                             exc |-> None, fallback |-> TRUE,
                             keys |-> DOMAIN f.responses,
                             context |-> shared_context.text, stage |-> stage,
                             calls |-> f.calls,
                             sequential |-> SequentialContexts(cm, cfg.agents, f.responses,
                                                               out, stage),
                             log |-> Append(lastBatch.log, "fallback")]
            /\ retrievers' = f.retrievers
            /\ cm' = AppendResponses(cm, 1, cfg.agents, f.responses, out)
            /\ pc' = "next"
    /\ UNCHANGED <<cfg, env, stage, r, idx, shared_context, stageLog, lastCall, abort,
                   runs, lastCtx, calls, response_text, uiVars, parsed>>

\* _batch_round when batch_respond's generation call has returned: the try
\* branch returns parse_batch_response(response.text, agents), and the loop of
\* _batch_round appends its entries
BatchedRound ==
    /\ pc = "batch"
    /\ \E batch \in {b \in BatchOutcomes : b.ok}, out \in SummaryOutcomes :
        LET responses == parse_batch_response(batch.text, cfg.agents)
        IN  /\ lastBatch' = [made |-> TRUE, gen_ok |-> TRUE, raised |-> FALSE,
                             exc |-> None, fallback |-> FALSE,
                             keys |-> DOMAIN responses,
                             context |-> shared_context.text, stage |-> stage,
                             calls |-> << >>, sequential |-> << >>,
                             log |-> Append(lastBatch.log, "batched")]
            /\ cm' = AppendResponses(cm, 1, cfg.agents, responses, out)
            /\ pc' = "next"
    /\ UNCHANGED <<cfg, env, stage, r, idx, shared_context, retrievers, faults, stageLog,
                   lastCall, abort, runs, lastCtx, calls, response_text, uiVars, parsed>>

NextFallback ==
    \/ _opening_statements
    \/ _rebuttal_round
    \/ _closing_round
    \/ FallbackRound
    \/ BatchedRound
    \/ _summary

SpecFallback == InitFallback /\ [][NextFallback]_vars

(***************************************************************************)
(* The sequential controller with the rosters larger than those of Init,   *)
(* large enough for the default threshold to be reached in the middle of a *)
(* round and during the opening.  The generation calls of these runs       *)
(* return (the budget of injected failures is spent from the start).       *)
(***************************************************************************)
InitLarge ==
    /\ \E n \in (MaxAgents + 1)..MaxSeats, mode \in ContextMode, max_rounds \in 1..MaxRounds :
        /\ cfg = [agents |-> Roster("domains", n), topic |-> <<"T">>,
                  max_rounds |-> max_rounds, use_batching |-> FALSE,
                  use_rag |-> FALSE, word_limits |-> None]
        /\ cm = start_debate(ConversationManager(mode, DefaultWindowSize, DefaultSummaryEvery),
                             <<"T">>, AgentNames(Roster("domains", n)))
        /\ retrievers = [i \in 1..n |-> None]
    /\ env = [rag |-> "absent"]
    /\ pc = "created"
    /\ stage = None
    /\ r = 0
    /\ idx = 0
    /\ shared_context = [none |-> TRUE, text |-> << >>]
    /\ faults = MaxFaults
    /\ stageLog = << >>
    /\ lastCall = NoCall
    /\ lastBatch = NoBatch
    /\ abort = None
    /\ runs = 1
    /\ lastCtx = NoCtx
    /\ calls = 0
    /\ response_text = << >>
    /\ user_debate = NoUserDebate
    /\ session_state = NoSession
    /\ parsed = [made |-> FALSE, responses |-> EmptyDict]

NextLarge ==
    \/ _opening_statements
    \/ _rebuttal_round
    \/ _closing_round
    \/ _individual_round
    \/ _summary

SpecLarge == InitLarge /\ [][NextLarge]_vars

(***************************************************************************)
(* The ConversationManager driven directly: any sequence of start_debate,  *)
(* advance_round, add_message and context_for calls on a manager built     *)
(* with any mode, window size and threshold.                               *)
(***************************************************************************)
Speakers == {"Ann", "Bob"}

Requesters == Speakers \cup {"shared"}

\* the state of the variables that belong to a controller run, when there is none
IdleRun(agents) ==
    /\ cfg = [agents |-> agents, topic |-> <<"T">>, max_rounds |-> 0,
              use_batching |-> FALSE, use_rag |-> FALSE, word_limits |-> None]
    /\ env = [rag |-> "ok"]
    /\ pc = "none"
    /\ stage = None
    /\ r = 0
    /\ idx = 0
    /\ shared_context = [none |-> TRUE, text |-> << >>]
    /\ retrievers = [i \in 1..Len(agents) |-> None]
    /\ faults = 0
    /\ stageLog = << >>
    /\ lastCall = NoCall
    /\ lastBatch = NoBatch
    /\ abort = None
    /\ runs = 0

InitCM ==
    /\ IdleRun(<< >>)
    /\ \E mode \in ContextMode, window_size \in 0..MaxWindow,
          summary_every_n_turns \in 1..MaxThreshold :
        cm = ConversationManager(mode, window_size, summary_every_n_turns)
    /\ lastCtx = NoCtx
    /\ calls = 0
    /\ response_text = << >>
    /\ user_debate = NoUserDebate
    /\ session_state = NoSession
    /\ parsed = [made |-> FALSE, responses |-> EmptyDict]

\* cm.start_debate(topic, agents), with a roster one of the Speakers is not on
CMStartDebate ==
    /\ calls < MaxCalls
    /\ calls' = calls + 1
    /\ cm' = start_debate(cm, <<"T">>, <<"Ann", "Cy">>)
    /\ lastCtx' = NoCtx
    /\ UNCHANGED <<runVars, parseVars, uiVars>>

\* cm.advance_round()
CMAdvanceRound ==
    /\ calls < MaxCalls
    /\ calls' = calls + 1
    /\ cm' = advance_round(cm)
    /\ lastCtx' = NoCtx
    /\ UNCHANGED <<runVars, parseVars, uiVars>>

\* cm.add_message(speaker, text)
CMAddMessage ==
    /\ calls < MaxCalls
    /\ calls' = calls + 1
    /\ \E speaker \in Speakers, out \in CompactionOutcomes(cm) :
        cm' = add_message(cm, speaker, <<"arg">>, out)
    /\ lastCtx' = NoCtx
    /\ UNCHANGED <<runVars, parseVars, uiVars>>

\* what lastCtx becomes when context_for(who) returns text: `previous` is the
\* value the call just before returned to the same requester, if the call
\* just before was a context_for of that requester
ContextReturned(who, text) ==
    [made |-> TRUE, who |-> who, text |-> text,
     previous |-> IF lastCtx.made /\ lastCtx.who = who
                  THEN [made |-> TRUE, text |-> lastCtx.text]
                  ELSE [made |-> FALSE, text |-> << >>]]

\* cm.context_for(requesting_agent) that clears the summary it has handed out
CMContextFor_consuming ==
    /\ \E who \in Requesters :
        lastCtx' = ContextReturned(who, context_for(cm, who))
    /\ cm' = [cm EXCEPT !.summary = << >>]
    /\ UNCHANGED <<calls, runVars, parseVars, uiVars>>

\* cm.context_for(requesting_agent): reads, changes nothing
CMContextFor ==
    /\ \E who \in Requesters :
        lastCtx' = ContextReturned(who, context_for(cm, who))
    /\ UNCHANGED <<cm, calls, runVars, parseVars, uiVars>>

NextCM ==
    \/ CMStartDebate
    \/ CMAdvanceRound
    \/ CMAddMessage
    \/ CMContextFor

SpecCM == InitCM /\ [][NextCM]_vars

(***************************************************************************)
(* parse_batch_response applied to the batched replies a model can send:   *)
(* up to MaxLines lines, each a well-formed label line, a malformed one,   *)
(* a continuation line or a blank line.                                    *)
(***************************************************************************)
ReplyLines ==
    { <<LABEL, "1", ":", " ", "a">>,
      <<LABEL, "2", ":", " ", "b">>,
      <<LABEL, "3", ":", " ", "c">>,
      <<" ", LABEL, "3", " ", ":", "c", " ">>,
      <<LABEL, "1", ":">>,
      <<LABEL, "2">>,
      <<LABEL, "1", " ", "w">>,
      <<LABEL, "9", ":", " ", "z">>,
      <<LABEL, "x", ":", " ", "z">>,
      <<"w">>,
      << >> }

Replies == UNION { [1..n -> ReplyLines] : n \in 0..MaxLines }

InitParse ==
    /\ \E n \in 2..MaxAgents : IdleRun(Roster("domains", n))
    /\ cm = advance_round(start_debate(
                ConversationManager(HYBRID, DefaultWindowSize, DefaultSummaryEvery),
                cfg.topic, AgentNames(cfg.agents)))
    /\ lastCtx = NoCtx
    /\ calls = 0
    /\ \E lines \in Replies : response_text = Join(lines, <<NL>>)
    /\ user_debate = NoUserDebate
    /\ session_state = NoSession
    /\ parsed = [made |-> FALSE, responses |-> EmptyDict]

\* responses = self.parse_batch_response(response.text, agents)
ParseBatchResponse ==
    /\ pc = "none"
    /\ ~parsed.made
    /\ parsed' = [made |-> TRUE,
                  responses |-> parse_batch_response(response_text, cfg.agents)]
    /\ UNCHANGED <<cm, lastCtx, calls, runVars, response_text, uiVars>>

\* the `for agent in self.agents` loop of _batch_round, given the mapping
\* batch_respond returned
BatchRoundAppend ==
    /\ pc = "none"
    /\ parsed.made
    /\ \E out \in CompactionOutcomes(cm) :
        cm' = AppendResponses(cm, 1, cfg.agents, parsed.responses, out)
    /\ pc' = "next"
    /\ UNCHANGED <<cfg, env, stage, r, idx, shared_context, retrievers, faults, stageLog,
                   lastCall, lastBatch, abort, runs, lastCtx, calls, response_text, uiVars, parsed>>

NextParse ==
    \/ ParseBatchResponse
    \/ BatchRoundAppend

SpecParse == InitParse /\ [][NextParse]_vars

(***************************************************************************)
(* The rounds of both strategies side by side: the runs of the controller  *)
(* and the batched round played on every parsed reply.                     *)
(***************************************************************************)
InitRounds == Init \/ InitParse

NextRounds ==
    \/ Next
    \/ NextParse

SpecRounds == InitRounds /\ [][NextRounds]_vars

(***************************************************************************)
(* DebateAgent.respond called directly on the agents of a roster, in an    *)
(* installation where the rag package imports and constructs ("ok"),       *)
(* cannot be imported ("absent"), or imports but whose KnowledgeRetriever  *)
(* constructor raises ("broken": GoogleGenerativeAIEmbeddings rejects its  *)
(* arguments).                                                             *)
(***************************************************************************)
Installations == {"ok", "absent", "broken"}

InitAgent ==
    /\ \E variant \in RosterVariants, rag \in Installations :
        /\ cfg = [agents |-> Roster(variant, 3), topic |-> <<"T">>, max_rounds |-> 0,
                  use_batching |-> FALSE, use_rag |-> FALSE, word_limits |-> None]
        /\ env = [rag |-> rag]
    /\ pc = "none"
    /\ stage = None
    /\ r = 0
    /\ idx = 0
    /\ shared_context = [none |-> TRUE, text |-> << >>]
    /\ retrievers = [i \in 1..3 |-> None]
    /\ faults = 0
    /\ stageLog = << >>
    /\ lastCall = NoCall
    /\ lastBatch = NoBatch
    /\ abort = None
    /\ runs = 0
    /\ cm = ConversationManager(HYBRID, DefaultWindowSize, DefaultSummaryEvery)
    /\ lastCtx = NoCtx
    /\ calls = 0
    /\ response_text = << >>
    /\ user_debate = NoUserDebate
    /\ session_state = NoSession
    /\ parsed = [made |-> FALSE, responses |-> EmptyDict]

\* agent.respond(topic, context, 1, stage, word_limits, use_rag)
AgentRespond ==
    /\ pc = "none"
    /\ calls < MaxCalls
    /\ calls' = calls + 1
    /\ \E i \in 1..Len(cfg.agents), use_rag \in BOOLEAN, in \in RespondInputs :
        LET agent == cfg.agents[i]
            res == respond(agent, retrievers[i], env.rag, cfg.topic, << >>, "opening",
                           use_rag, in)
        IN  /\ retrievers' = [retrievers EXCEPT ![i] = res.retriever]
            /\ lastCall' = [made |-> TRUE, agent |-> agent.name, context |-> << >>,
                            stage |-> "opening", use_rag |-> use_rag,
                            knowledge |-> res.knowledge, text |-> res.text,
                            raised |-> res.raised, gen_ok |-> in.gen.ok,
                            generated |-> res.generated, round |-> 0, at |-> 0,
                            turns |-> 0]
    /\ UNCHANGED <<cfg, env, cm, pc, stage, r, idx, shared_context, faults, stageLog,
                   lastBatch, abort, runs, lastCtx, response_text, uiVars, parsed>>

NextAgent == AgentRespond

SpecAgent == InitAgent /\ [][NextAgent]_vars

(***************************************************************************)
(* A user-vs-AI debate: UserVsAIController.run() with one or two AI        *)
(* opponents, either order, in every installation of the rag package.      *)
(***************************************************************************)
MaxOpponents == 2

\* the state of every variable that belongs to neither front end
NoDebate ==
    /\ cfg = [agents |-> << >>, topic |-> <<"T">>, max_rounds |-> 0,
              use_batching |-> FALSE, use_rag |-> FALSE, word_limits |-> None]
    /\ pc = "none"
    /\ stage = None
    /\ r = 0
    /\ idx = 0
    /\ shared_context = [none |-> TRUE, text |-> << >>]
    /\ retrievers = << >>
    /\ faults = 0
    /\ stageLog = << >>
    /\ lastCall = NoCall
    /\ lastBatch = NoBatch
    /\ abort = None
    /\ runs = 0
    /\ cm = ConversationManager(HYBRID, DefaultWindowSize, DefaultSummaryEvery)
    /\ lastCtx = NoCtx
    /\ calls = 0
    /\ response_text = << >>
    /\ parsed = [made |-> FALSE, responses |-> EmptyDict]

\* UserVsAIController(ai_agents, topic, user_goes_first, use_rag=...) and the
\* start of run(), up to "Press Enter to start the debate..."
InitUser ==
    /\ NoDebate
    /\ \E rag \in Installations : env = [rag |-> rag]
    /\ \E n \in 1..MaxOpponents, user_goes_first \in BOOLEAN, use_rag \in BOOLEAN :
        user_debate = [UserVsAIController(Roster("domains", n), user_goes_first, use_rag)
                         EXCEPT !.pc = "first"]
    /\ session_state = NoSession

\* where run() is once the second handler of round round_num has returned
AfterRound(u) ==
    IF u.round_num + 1 < u.max_rounds
    THEN [u EXCEPT !.round_num = @ + 1, !.pc = "first"]
    ELSE [u EXCEPT !.round_num = @ + 1, !.pc = "summary"]

\* what run() does between the handlers: at the top of an iteration
\* self.current_round = round_num; after the first handler the second one,
\* after the second one the next iteration
Entering(u) == IF u.pc = "first" THEN [u EXCEPT !.current_round = u.round_num] ELSE u

Leaving(u, was) == IF was = "first" THEN [u EXCEPT !.pc = "second"] ELSE AfterRound(u)

\* run(): self._handle_user_turn(stage); its result is not looked at
HandleUserTurn ==
    /\ \/ user_debate.pc = "first" /\ user_debate.user_goes_first
       \/ user_debate.pc = "second" /\ ~user_debate.user_goes_first
    /\ \E user_response \in UserResponses :
        LET u == Entering(user_debate)
            h == _handle_user_turn(u, _get_stage(u.round_num), user_response)
        IN  user_debate' = Leaving([h.u EXCEPT !.quit = @ \/ ~h.returned], user_debate.pc)
    /\ UNCHANGED <<cfg, env, cm, pc, stage, r, idx, shared_context, retrievers, faults,
                   stageLog, lastCall, lastBatch, abort, runs, lastCtx, calls,
                   response_text, parsed, session_state>>

\* run(): self._handle_ai_turns(stage)
HandleAITurns ==
    /\ \/ user_debate.pc = "first" /\ ~user_debate.user_goes_first
       \/ user_debate.pc = "second" /\ user_debate.user_goes_first
    /\ \E ins \in [1..Len(user_debate.ai_agents) -> FallbackInputs] :
        LET u == Entering(user_debate)
            failures == Cardinality({i \in 1..Len(u.ai_agents) : ~ins[i].gen.ok})
        IN  /\ u.faults + failures <= MaxFaults
            /\ user_debate' =
                 Leaving([_handle_ai_turns(u, _get_stage(u.round_num), env.rag, ins)
                            EXCEPT !.faults = @ + failures],
                         user_debate.pc)
    /\ UNCHANGED <<cfg, env, cm, pc, stage, r, idx, shared_context, retrievers, faults,
                   stageLog, lastCall, lastBatch, abort, runs, lastCtx, calls,
                   response_text, parsed, session_state>>

\* run(): self._show_debate_summary()
ShowDebateSummary ==
    /\ user_debate.pc = "summary"
    /\ user_debate' = [user_debate EXCEPT !.pc = "done"]
    /\ UNCHANGED <<cfg, env, cm, pc, stage, r, idx, shared_context, retrievers, faults,
                   stageLog, lastCall, lastBatch, abort, runs, lastCtx, calls,
                   response_text, parsed, session_state>>

NextUser ==
    \/ HandleUserTurn
    \/ HandleAITurns
    \/ ShowDebateSummary

SpecUser == InitUser /\ [][NextUser]_vars

(***************************************************************************)
(* The Streamlit front end: any sequence of clicks on Start Debate, Next   *)
(* Round, Skip to End and New Debate.                                      *)
(***************************************************************************)
MaxClicks == 6

InitSession ==
    /\ NoDebate
    /\ \E rag \in Installations : env = [rag |-> rag]
    /\ user_debate = NoUserDebate
    /\ session_state = NoSession

\* the click counted
Clicked(ss) == [ss EXCEPT !.clicks = @ + 1]

\* main(): if st.button("Start Debate"): with at least 2 agents, a provider
\* and a topic start_debate(...), else an error message
StartDebateButton ==
    /\ session_state.clicks < MaxClicks
    /\ \E n \in 1..MaxAgents, use_rag \in BOOLEAN :
        session_state' =
            IF n >= 2
            THEN Clicked(session_start_debate(session_state, <<"T">>, Roster("domains", n),
                                              [use_rag |-> use_rag]))
            ELSE Clicked(session_state)
    /\ UNCHANGED <<cfg, env, cm, pc, stage, r, idx, shared_context, retrievers, faults,
                   stageLog, lastCall, lastBatch, abort, runs, lastCtx, calls,
                   response_text, parsed, user_debate>>

\* The environments of the agents of one click: the generation failures are
\* counted against MaxFaults.
ClickInputs(ss) ==
    { ins \in [1..Len(ss.agents) -> FallbackInputs] :
        ss.faults + Cardinality({i \in 1..Len(ss.agents) : ~ins[i].gen.ok}) <= MaxFaults }

Failed(ss, ins) == Cardinality({i \in 1..Len(ss.agents) : ~ins[i].gen.ok})

\* display_debate_interface(): if st.button("Next Round"): run_debate_round()
NextRoundButton ==
    /\ session_state.debate_started
    /\ session_state.clicks < MaxClicks
    /\ \E ins \in ClickInputs(session_state) :
        session_state' = [Clicked(run_debate_round(session_state, env.rag, ins))
                            EXCEPT !.faults = @ + Failed(session_state, ins)]
    /\ UNCHANGED <<cfg, env, cm, pc, stage, r, idx, shared_context, retrievers, faults,
                   stageLog, lastCall, lastBatch, abort, runs, lastCtx, calls,
                   response_text, parsed, user_debate>>

\* display_debate_interface(): if st.button("Skip to End"): run_full_debate()
SkipToEndButton ==
    /\ session_state.debate_started
    /\ session_state.clicks < MaxClicks
    /\ \E ins \in ClickInputs(session_state) :
        session_state' = [Clicked(run_full_debate(session_state, env.rag, ins))
                            EXCEPT !.faults = @ + Failed(session_state, ins)]
    /\ UNCHANGED <<cfg, env, cm, pc, stage, r, idx, shared_context, retrievers, faults,
                   stageLog, lastCall, lastBatch, abort, runs, lastCtx, calls,
                   response_text, parsed, user_debate>>

\* display_debate_interface(): if st.button("New Debate"): reset_debate()
NewDebateButton ==
    /\ session_state.debate_started
    /\ session_state.clicks < MaxClicks
    /\ session_state' = Clicked(reset_debate(session_state))
    /\ UNCHANGED <<cfg, env, cm, pc, stage, r, idx, shared_context, retrievers, faults,
                   stageLog, lastCall, lastBatch, abort, runs, lastCtx, calls,
                   response_text, parsed, user_debate>>

NextSession ==
    \/ StartDebateButton
    \/ NextRoundButton
    \/ SkipToEndButton
    \/ NewDebateButton

SpecSession == InitSession /\ [][NextSession]_vars

(***************************************************************************)
(* Properties                                                              *)
(***************************************************************************)
\* the response turns of the transcript tagged with round n
ResponsesIn(history, n) == SelectSeq(history, LAMBDA m : m.type = "response" /\ m.round = n)

\* the number of stages run() has completed: the round in progress, if any,
\* is not counted
CompletedStages ==
    CASE pc \in {"next", "done"} -> cm.round
      [] pc \in {"individual", "batch"} -> cm.round - 1
      [] pc = "aborted" -> IF abort = "ZeroDivisionError" THEN cm.round ELSE cm.round - 1
      [] OTHER -> 0

IsPrefix(a, b) == Len(a) <= Len(b) /\ SubSeq(b, 1, Len(a)) = a

\* sub occurs in text as a contiguous run of tokens
Contains(text, sub) ==
    \E i \in 1..(Len(text) + 1) :
        i + Len(sub) - 1 <= Len(text) /\ SubSeq(text, i, i + Len(sub) - 1) = sub

IsErrorPlaceholder(text) == Len(text) > 0 /\ text[1] = "[Error with "

\* C1: after every completed stage the transcript holds exactly one response
\* turn per roster participant tagged with that stage's round, in roster
\* order, so that N completed stages leave N * P non-system turns; a
\* participant whose turn failed is present with a placeholder text.
C1_StageLength ==
    LET P == Len(cfg.agents)
    IN  /\ \A n \in 1..CompletedStages :
            LET turns == ResponsesIn(cm.history, n)
            IN  /\ Len(turns) = P
                /\ \A i \in 1..P : turns[i].agent = cfg.agents[i].name
        /\ pc \in {"next", "done"} => Len(NonSystem(cm.history)) = CompletedStages * P

\* two stages of three participants are complete and one of the six turns is
\* an error placeholder
C1_Witness ==
    /\ pc = "next"
    /\ cm.round = 2
    /\ Len(cfg.agents) = 3
    /\ Len(NonSystem(cm.history)) = 6
    /\ \E i \in 1..Len(cm.history) :
        cm.history[i].type = "response" /\ IsErrorPlaceholder(cm.history[i].message)

\* opening, max_rounds - 2 rebuttals, closing
Schedule(max_rounds) ==
    <<"opening">> \o [i \in 1..(max_rounds - 2) |-> "rebuttal"] \o <<"closing">>

\* C2: for max_rounds >= 2 the stages run() has begun are always an initial
\* part of opening, max_rounds - 2 rebuttals, closing, one round of the
\* transcript each, and a run that finished has executed exactly that list.
C2_StageOrder ==
    cfg.max_rounds >= 2 =>
        /\ IsPrefix(stageLog, Schedule(cfg.max_rounds))
        /\ cm.round = Len(stageLog)
        /\ pc = "done" => stageLog = Schedule(cfg.max_rounds)

\* a finished run of three rounds, with its one rebuttal
C2_Witness ==
    /\ pc = "done"
    /\ cfg.max_rounds = 3
    /\ Len(cfg.agents) >= 2
    /\ stageLog = <<"opening", "rebuttal", "closing">>

\* the lines of a context text
ContextLines(text) == IF text = << >> THEN << >> ELSE SplitOn(text, NL)

\* C3: in FULL mode the text context_for(X) returns has one line per
\* non-system turn not spoken by X, all of them, in transcript order, each
\* the speaker, ": " and the text; no line is spoken by X.
C3_FullContext ==
    (cm.mode = FULL /\ lastCtx.made) =>
        LET others == SelectSeq(cm.history,
                                LAMBDA m : m.type # "system" /\ m.agent # lastCtx.who)
            lines == ContextLines(lastCtx.text)
        IN  /\ Len(lines) = Len(others)
            /\ \A i \in 1..Len(lines) :
                /\ lines[i] = <<others[i].agent, ": ">> \o others[i].message
                /\ lines[i][1] # lastCtx.who

\* a FULL-mode context asked by Ann when both Ann and Bob have spoken
C3_Witness ==
    /\ cm.mode = FULL
    /\ lastCtx.made
    /\ lastCtx.who = "Ann"
    /\ lastCtx.text # << >>
    /\ \E i \in 1..Len(cm.history) : cm.history[i].type = "response" /\ cm.history[i].agent = "Ann"
    /\ \E i \in 1..Len(cm.history) : cm.history[i].type = "response" /\ cm.history[i].agent = "Bob"

\* a step that appends one non-system turn
AppendStep == Len(NonSystem(cm'.history)) = Len(NonSystem(cm.history)) + 1

\* a step during which summary_model.generate_content was called
SummaryInvoked == Len(cm'.summary_model) = Len(cm.summary_model) + 1

\* C4 as stated: an append invokes the summariser exactly when the mode is
\* SUMMARIZED or HYBRID and the incremented counter has reached the threshold.
C4_InvokedIffThreshold ==
    [][AppendStep =>
        (SummaryInvoked <=>
            /\ cm.mode \in {SUMMARIZED, HYBRID}
            /\ cm.turns_since_last_summary + 1 >= cm.summary_every_n_turns)]_vars

\* C4: an append invokes the summariser exactly when the mode is SUMMARIZED
\* or HYBRID, the incremented counter has reached the threshold, and the
\* non-system turns, the new one included, outnumber window_size.
C4_InvokedIffThresholdAndWindow ==
    [][AppendStep =>
        (SummaryInvoked <=>
            /\ cm.mode \in {SUMMARIZED, HYBRID}
            /\ cm.turns_since_last_summary + 1 >= cm.summary_every_n_turns
            /\ Len(NonSystem(cm'.history)) > cm.window_size)]_vars

\* a summarising manager whose counter reached the threshold on an append
\* that did not outnumber the window: nothing was summarised
C4_Witness ==
    /\ cm.mode \in {SUMMARIZED, HYBRID}
    /\ Len(NonSystem(cm.history)) >= 1
    /\ Len(NonSystem(cm.history)) <= cm.window_size
    /\ cm.turns_since_last_summary >= cm.summary_every_n_turns
    /\ cm.summary_model = << >>

\* C5: in FULL mode the summary is empty and the summariser has never been
\* called, whatever calls were made on the manager.
C5_FullNeverSummarises ==
    cm.mode = FULL => cm.summary = << >> /\ cm.summary_model = << >>

\* a FULL-mode manager past the threshold and the window, after a context_for
C5_Witness ==
    /\ cm.mode = FULL
    /\ cm.turns_since_last_summary >= cm.summary_every_n_turns
    /\ Len(NonSystem(cm.history)) > cm.window_size
    /\ cm.round >= 1
    /\ lastCtx.made

\* 3 participants, max_rounds 3, HYBRID, window 3, threshold 6
C6_Scenario ==
    /\ Len(cfg.agents) = 3
    /\ cfg.max_rounds = 3
    /\ ~cfg.use_batching
    /\ cm.mode = HYBRID
    /\ cm.window_size = 3
    /\ cm.summary_every_n_turns = 6

\* C6: in the scenario the summariser is called once, during the append of
\* the 6th response turn and not before; the finished run has 9 response
\* turns; every context_for made from then on contains the summary, headed
\* "[Earlier summary]" when the summary is not empty.
C6_HybridScenario ==
    C6_Scenario =>
        /\ Len(cm.summary_model) = (IF Len(NonSystem(cm.history)) >= 6 THEN 1 ELSE 0)
        /\ \A k \in 1..Len(cm.summary_model) : cm.summary_model[k].n = 6
        /\ pc = "done" => Len(NonSystem(cm.history)) = 9 /\ Len(cm.summary_model) = 1
        /\ (lastCall.made /\ lastCall.turns >= 6) =>
              /\ Contains(lastCall.context, cm.summary)
              /\ cm.summary # << >> =>
                    IsPrefix(<<"[Earlier summary]", NL>> \o cm.summary, lastCall.context)
        /\ Len(NonSystem(cm.history)) >= 6 =>
              \A i \in 1..3 : Contains(context_for(cm, cfg.agents[i].name), cm.summary)

\* the scenario's run has finished, the summariser answered "S", and the
\* last turn of the closing round was given a context with that summary
C6_Witness ==
    /\ C6_Scenario
    /\ pc = "done"
    /\ cm.summary = <<"S">>
    /\ lastCall.made
    /\ lastCall.turns = 8
    /\ IsPrefix(<<"[Earlier summary]", NL, "S">>, lastCall.context)

\* C7 as stated: every call of batch_respond returns a mapping; none raises.
C7_BatchRespondReturns ==
    lastBatch.made => ~lastBatch.raised /\ pc # "aborted"

\* C8 as stated: when the batched generation call raises, batch_respond
\* returns one fallback entry per roster participant, the fallback is
\* reported, and the round appends P turns.
C8_FallbackOnGenerationFailure ==
    (lastBatch.made /\ ~lastBatch.gen_ok) =>
        /\ ~lastBatch.raised
        /\ lastBatch.fallback
        /\ lastBatch.keys = {cfg.agents[i].name : i \in 1..Len(cfg.agents)}
        /\ Len(ResponsesIn(cm.history, cm.round)) = Len(cfg.agents)

\* the label AGENT_k, up to its colon or the end of the line
Labelled(line, k) ==
    /\ Len(line) >= 2
    /\ line[1] = LABEL
    /\ \E j \in 2..Len(line) :
        /\ Strip(SubSeq(line, 2, j)) = <<ToString(k)>>
        /\ j = Len(line) \/ line[j + 1] = ":"
        /\ \A i \in 2..j : line[i] # ":"

\* the text that follows the first colon of a line
AfterColon(line) ==
    LET colons == {i \in 1..Len(line) : line[i] = ":"}
    IN  IF colons = {} THEN << >>
        ELSE LET k == CHOOSE i \in colons : \A j \in colons : i <= j
             IN  Strip(SubSeq(line, k + 1, Len(line)))

\* the lines of the batched reply, each stripped
ReplyText == LET raw == SplitOn(response_text, NL)
             IN  [i \in 1..Len(raw) |-> Strip(raw[i])]

\* the first piece of the text that line i, a label, opens: what follows its
\* colon, or else the first following line of text not cut off from it by the
\* label of a roster participant
BlockHead(i) ==
    LET here == AfterColon(ReplyText[i])
        after == {j \in (i + 1)..Len(ReplyText) :
                    /\ ReplyText[j] # << >>
                    /\ ReplyText[j][1] # LABEL
                    /\ \A m \in (i + 1)..(j - 1), k \in 1..Len(cfg.agents) :
                          ~Labelled(ReplyText[m], k)}
    IN  IF here # << >> THEN here
        ELSE IF after = {} THEN << >>
        ELSE ReplyText[CHOOSE j \in after : \A m \in after : j <= m]

\* participant a is the one whose label the reply lacks, every other
\* participant's label is there with text after it
OnlyMissing(a) ==
    /\ \A i \in 1..Len(ReplyText) : ~Labelled(ReplyText[i], a)
    /\ \A k \in (1..Len(cfg.agents)) \ {a} :
        \E i \in 1..Len(ReplyText) :
            Labelled(ReplyText[i], k) /\ AfterColon(ReplyText[i]) # << >>

\* C9: when the reply lacks the label of exactly one participant and has
\* every other label with text, the mapping has an entry per participant:
\* the placeholder for the one missing, and for each of the others a text
\* that is not a placeholder and begins with the text one of its labels opens.
C9_PartialParse ==
    parsed.made =>
        \A a \in 1..Len(cfg.agents) :
            OnlyMissing(a) =>
                /\ DOMAIN parsed.responses = {cfg.agents[i].name : i \in 1..Len(cfg.agents)}
                /\ parsed.responses[cfg.agents[a].name] =
                       <<"[Batch response parsing incomplete for ", cfg.agents[a].name, "]">>
                /\ \A k \in (1..Len(cfg.agents)) \ {a} :
                    LET text == parsed.responses[cfg.agents[k].name]
                    IN  /\ text # << >>
                        /\ text[1] # "[Batch response parsing incomplete for "
                        /\ \E i \in 1..Len(ReplyText) :
                            /\ Labelled(ReplyText[i], k)
                            /\ BlockHead(i) # << >>
                            /\ IsPrefix(BlockHead(i), text)

\* a reply for three participants that lacks one label has been parsed
C9_Witness ==
    /\ parsed.made
    /\ Len(cfg.agents) = 3
    /\ \E a \in 1..3 : OnlyMissing(a)
    /\ Len(ReplyText) = 3

\* C10: in a sequential round a turn whose generation call raised is appended
\* as an error placeholder of that participant in that round, nothing is
\* raised out of the turn, and the round goes on: while it runs it holds the
\* turns of the participants before the current one, and once over, one turn
\* of every participant in roster order.
C10_GenerationFailureIsolated ==
    LET turns == ResponsesIn(cm.history, cm.round)
        P == Len(cfg.agents)
    IN  (~cfg.use_batching /\ pc # "none") =>
            /\ (lastCall.made /\ lastCall.generated) => ~lastCall.raised
            /\ (lastCall.made /\ lastCall.generated /\ ~lastCall.gen_ok) =>
                  /\ pc # "aborted"
                  /\ Len(cm.history) > lastCall.at
                  /\ LET t == cm.history[lastCall.at + 1]
                     IN  /\ t.type = "response"
                         /\ t.agent = lastCall.agent
                         /\ t.round = lastCall.round
                         /\ IsErrorPlaceholder(t.message)
            /\ pc = "individual" =>
                  /\ Len(turns) = idx - 1
                  /\ \A i \in 1..Len(turns) : turns[i].agent = cfg.agents[i].name
            /\ (pc \in {"next", "done"} /\ cm.round >= 1) =>
                  /\ Len(turns) = P
                  /\ \A i \in 1..P : turns[i].agent = cfg.agents[i].name

\* a finished sequential round in which a participant's generation raised
\* and a later participant's argument was recorded
C10_Witness ==
    LET turns == ResponsesIn(cm.history, cm.round)
    IN  /\ ~cfg.use_batching
        /\ pc = "next"
        /\ \E i \in 1..Len(turns), j \in 1..Len(turns) :
            /\ i < j
            /\ turns[i].message = <<"[Error with ", "Gemini", ": ", "E", "]">>
            /\ turns[j].message = <<"arg">>

\* C11 as stated: a controller configured with max_rounds < 2 runs no stage
\* and never has a response turn in its transcript.
C11_FewRoundsRejected ==
    cfg.max_rounds < 2 =>
        /\ stageLog = << >>
        /\ cm.round = 0
        /\ NonSystem(cm.history) = << >>
        /\ pc \in {"created", "none"}

\* C12 as stated: a controller given fewer than 2 participants never starts
\* its transcript (no system turn) and runs no stage.
C12_SmallRosterRejected ==
    (Len(cfg.agents) < 2 /\ pc # "none") =>
        /\ cm.history = << >>
        /\ stageLog = << >>

\* the latest call of the summary model raised
LastSummaryFailed(c) == Len(c.summary_model) > 0 /\ ~c.summary_ok

\* C13: when the summary model raises during the compaction an append
\* triggers, the summary afterwards is the summary before followed by a
\* "[Summary failed: ...]" annotation, and the appended turn is the last turn
\* of the transcript, after the turns that were there.
C13_SummaryFailureKept ==
    [][(AppendStep /\ SummaryInvoked /\ LastSummaryFailed(cm')) =>
          /\ IsPrefix(cm.summary, cm'.summary)
          /\ SubSeq(cm'.summary, Len(cm.summary) + 1, Len(cm'.summary))
                 = <<NL, "[Summary failed: ", "E", "]">>
          /\ Len(cm'.history) = Len(cm.history) + 1
          /\ SubSeq(cm'.history, 1, Len(cm.history)) = cm.history
          /\ cm'.history[Len(cm'.history)].type = "response"
          /\ cm'.history[Len(cm'.history)].message = <<"arg">>]_vars

\* a summary "S" from an earlier compaction followed by the annotation of a
\* later one that failed, the triggering turn in the transcript
C13_Witness ==
    /\ LastSummaryFailed(cm)
    /\ cm.summary = <<"S", NL, "[Summary failed: ", "E", "]">>
    /\ Len(cm.history) > 0
    /\ cm.history[Len(cm.history)].type = "response"
    /\ cm.turns_since_last_summary = 0

\* the k most recent non-system turns of the transcript (all of them when
\* there are fewer than k)
LatestTurns(k) ==
    LET msgs == NonSystem(cm.history)
    IN  SubSeq(msgs, Len(msgs) - Min2(k, Len(msgs)) + 1, Len(msgs))

IsSuffix(a, b) == Len(a) <= Len(b) /\ SubSeq(b, Len(b) - Len(a) + 1, Len(b)) = a

\* C14 as stated: in HYBRID mode the recent-window part of context_for(X),
\* which ends the returned text, has at most 2 * window_size entries, each
\* the rendering of one of the 2 * window_size most recent non-system turns,
\* none spoken by X.
C14_WindowBounded ==
    (cm.mode = HYBRID /\ lastCtx.made) =>
        LET recent == _recent_window(cm, lastCtx.who)
            lines == ContextLines(recent)
            latest == LatestTurns(2 * cm.window_size)
        IN  /\ recent # << >> => IsSuffix(recent, lastCtx.text)
            /\ Len(lines) <= 2 * cm.window_size
            /\ \A i \in 1..Len(lines) :
                /\ lines[i][1] # lastCtx.who
                /\ \E j \in 1..Len(latest) :
                    lines[i] = <<latest[j].agent, ": ">> \o latest[j].message

\* C19: in SUMMARIZED mode context_for returns the summary itself when it is
\* not empty and "[No summary yet]" when it is; the text is never empty and
\* is the same for every requester.
C19_SummarizedContext ==
    (cm.mode = SUMMARIZED /\ lastCtx.made) =>
        /\ cm.summary # << >> => lastCtx.text = cm.summary
        /\ cm.summary = << >> => lastCtx.text = <<"[No summary yet]">>
        /\ lastCtx.text # << >>
        /\ \A who \in Requesters : context_for(cm, who) = lastCtx.text

\* a SUMMARIZED-mode context returned while the summary is "S", with turns
\* of both speakers in the transcript
C19_Witness ==
    /\ cm.mode = SUMMARIZED
    /\ lastCtx.made
    /\ cm.summary = <<"S">>
    /\ lastCtx.text = <<"S">>
    /\ \E i \in 1..Len(cm.history) : cm.history[i].agent = "Ann"
    /\ \E i \in 1..Len(cm.history) : cm.history[i].agent = "Bob"

\* C20 as stated: in HYBRID mode context_for returns the summary, when there
\* is one, under its "[Earlier summary]" heading, followed by the lines of
\* the turns of other speakers among the 2 * window_size most recent
\* non-system turns; it returns "[No context]" exactly when the summary is
\* empty and there is no such turn, and never the empty text.
C20_HybridContext ==
    (cm.mode = HYBRID /\ lastCtx.made) =>
        LET others == SelectSeq(LatestTurns(2 * cm.window_size),
                                LAMBDA m : m.agent # lastCtx.who)
            lines == [i \in 1..Len(others) |-> <<others[i].agent, ": ">> \o others[i].message]
            head == IF cm.summary # << >>
                    THEN << <<"[Earlier summary]", NL>> \o cm.summary >> ELSE << >>
        IN  /\ lastCtx.text # << >>
            /\ lastCtx.text = <<"[No context]">> <=> (cm.summary = << >> /\ others = << >>)
            /\ lastCtx.text # <<"[No context]">> =>
                  lastCtx.text = Join(head \o lines, <<NL>>)

HasText(k) ==
    \E i \in 1..Len(ReplyText) : Labelled(ReplyText[i], k) /\ BlockHead(i) # << >>

\* C18: whatever the reply, the mapping parse_batch_response returns has
\* exactly the roster's names as keys; the entry of a participant with no
\* label that opens text is its placeholder, and the entry of every other
\* participant is text parsed from the reply, beginning with the text one of
\* its labels opens.
C18_ParseKeysAreRoster ==
    parsed.made =>
        /\ DOMAIN parsed.responses = {cfg.agents[i].name : i \in 1..Len(cfg.agents)}
        /\ \A k \in 1..Len(cfg.agents) :
            LET name == cfg.agents[k].name
                text == parsed.responses[name]
            IN  IF HasText(k)
                THEN /\ text # << >>
                     /\ text[1] # "[Batch response parsing incomplete for "
                     /\ \E i \in 1..Len(ReplyText) :
                         /\ Labelled(ReplyText[i], k)
                         /\ BlockHead(i) # << >>
                         /\ IsPrefix(BlockHead(i), text)
                ELSE text = <<"[Batch response parsing incomplete for ", name, "]">>

\* a parsed reply whose labels are out of roster order and include one that
\* is out of range: one participant parsed, one with a placeholder
C18_Witness ==
    /\ parsed.made
    /\ Len(cfg.agents) = 3
    /\ ReplyText = << <<LABEL, "2", ":", " ", "b">>, <<LABEL, "9", ":", " ", "z">>,
                      <<LABEL, "1", ":", " ", "a">> >>
    /\ parsed.responses["Cy"] = <<"[Batch response parsing incomplete for ", "Cy", "]">>
    /\ parsed.responses["Ann"] = <<"a">>

\* C16: in every round the k-th response turn is spoken by the k-th roster
\* participant, while the round is played and after it, turn by turn in a
\* sequential round and for the turns a batched round appends from the
\* parsed mapping, whose text for each participant is the mapping's entry.
C16_RosterOrder ==
    /\ \A n \in 1..cm.round :
        LET turns == ResponsesIn(cm.history, n)
        IN  /\ Len(turns) <= Len(cfg.agents)
            /\ \A k \in 1..Len(turns) : turns[k].agent = cfg.agents[k].name
    /\ (parsed.made /\ pc = "next") =>
        LET turns == ResponsesIn(cm.history, cm.round)
        IN  /\ Len(turns) = Len(cfg.agents)
            /\ \A k \in 1..Len(turns) :
                turns[k].message = parsed.responses[cfg.agents[k].name]

\* a batched reply that gives participant 2 before participant 1 has been
\* appended: Ann's turn first, then Bob's
C16_Witness ==
    /\ parsed.made
    /\ pc = "next"
    /\ Len(cfg.agents) = 2
    /\ ReplyText = << <<LABEL, "2", ":", " ", "b">>, <<LABEL, "1", ":", " ", "a">> >>
    /\ LET turns == ResponsesIn(cm.history, 1)
       IN  /\ Len(turns) = 2
           /\ turns[1].agent = "Ann" /\ turns[1].message = <<"a">>
           /\ turns[2].agent = "Bob" /\ turns[2].message = <<"b">>

\* C17 as stated: once run() has returned, a further run() on the same
\* controller begins no stage and appends nothing to the transcript; the
\* controller is never done a second time.
C17_RunOnce ==
    [][runs > 1 => (cm' = cm /\ stageLog' = stageLog /\ pc' # "done")]_vars

\* C21 as stated: whatever the installation (rag importable and constructible,
\* not importable, or with a constructor that raises) and whatever the
\* retriever's query does, a respond call returns a text and raises nothing,
\* and where the retriever is absent or cannot be constructed the prompt
\* carries no knowledge.
C21_RagDegrades ==
    lastCall.made =>
        /\ ~lastCall.raised
        /\ env.rag # "ok" => lastCall.knowledge = << >>

\* C22 as stated: in SUMMARIZED and HYBRID modes the counter is reset whenever
\* it reaches the threshold, so that 0 <= turns_since_last_summary <
\* summary_every_n_turns in every state, for every threshold and window size.
C22_CounterBelowThreshold ==
    cm.mode \in {SUMMARIZED, HYBRID} =>
        /\ 0 <= cm.turns_since_last_summary
        /\ cm.turns_since_last_summary < cm.summary_every_n_turns

\* C22: turns_since_last_summary is incremented by exactly one on every
\* response append, or reset to 0 by the compaction that append runs, and is
\* unchanged by the system message of advance_round; in FULL mode it is only
\* incremented; in SUMMARIZED and HYBRID modes an append leaves it below the
\* threshold unless the transcript has at most window_size non-system turns,
\* in which case no compaction ran and the counter was not reset.
C22_CounterDiscipline ==
    [][/\ cm'.turns_since_last_summary >= 0
       /\ AppendStep =>
            \/ cm'.turns_since_last_summary = cm.turns_since_last_summary + 1
            \/ cm'.turns_since_last_summary = 0 /\ SummaryInvoked
       /\ (AppendStep /\ SummaryInvoked) => cm'.turns_since_last_summary = 0
       /\ (AppendStep /\ cm.mode = FULL) =>
            cm'.turns_since_last_summary = cm.turns_since_last_summary + 1
       /\ cm'.round = cm.round + 1 =>
            cm'.turns_since_last_summary = cm.turns_since_last_summary
       /\ (AppendStep /\ cm.mode \in {SUMMARIZED, HYBRID}) =>
            \/ cm'.turns_since_last_summary < cm.summary_every_n_turns
            \/ /\ Len(NonSystem(cm'.history)) <= cm.window_size
               /\ ~SummaryInvoked]_vars

\* a summarising manager with threshold 2 whose counter was reset by a
\* compaction and has since counted one more turn, a round begun in between
C22_Witness ==
    /\ cm.mode = SUMMARIZED
    /\ cm.summary_every_n_turns = 2
    /\ Len(cm.summary_model) = 1
    /\ cm.turns_since_last_summary = 1
    /\ Len(NonSystem(cm.history)) = 3
    /\ cm.round >= 1

\* C23 as stated: in every sequential turn, those of the opening included,
\* the context passed to the participant is context_for(participant)
\* evaluated on the transcript as it is when the turn begins.
C23_ContextAtTurn ==
    [][pc = "individual" =>
          lastCall'.context = context_for(cm, cfg.agents[idx].name)]_vars

\* C23: in a sequential round the turn of the idx-th participant begins when
\* the turns of the idx - 1 earlier roster participants of the round are in
\* the transcript; in a rebuttal or closing round the context passed to the
\* participant is context_for(participant) evaluated on that transcript, and
\* in the opening round it is the empty text.
C23_ContextAtTurnAfterOpening ==
    [][pc = "individual" =>
          LET agent == cfg.agents[idx]
              turns == ResponsesIn(cm.history, cm.round)
          IN  /\ lastCall'.agent = agent.name
              /\ lastCall'.stage = stage
              /\ Len(turns) = idx - 1
              /\ \A k \in 1..Len(turns) : turns[k].agent = cfg.agents[k].name
              /\ lastCall'.context = IF stage = "opening" THEN << >>
                                     ELSE context_for(cm, agent.name)]_vars

\* Bob's turn after the opening, in FULL mode with two participants: his
\* context holds Ann's opening and the turn Ann has just made in this round
C23_Witness ==
    /\ ~cfg.use_batching
    /\ cm.mode = FULL
    /\ Len(cfg.agents) = 2
    /\ lastCall.made
    /\ lastCall.agent = "Bob"
    /\ lastCall.stage # "opening"
    /\ lastCall.round = 2
    /\ lastCall.context = <<"Ann", ": ", "arg", NL, "Ann", ": ", "arg">>

\* the prompt _update_summary builds for the turns it submits
SummaryPrompt(turns) ==
    <<"Summarise the following multi-agent debate">> \o Join(RenderAll(turns), <<NL>>)
        \o <<NL, NL, "Summary:">>

\* the entry of the latest call of the summary model
LatestSummaryCall(c) == c.summary_model[Len(c.summary_model)]

\* C24 as stated: a compaction that runs when a summary has been computed on
\* this transcript submits only turns appended since the previous compaction:
\* no more turns than were appended since, and none of the turns the
\* transcript held at the previous compaction.
C24_NoResummarise ==
    [][(AppendStep /\ SummaryInvoked /\ cm.summary # << >> /\ cm.summary_ok
           /\ cm.mode \in {SUMMARIZED, HYBRID}) =>
          LET prev == LatestSummaryCall(cm)
              new == LatestSummaryCall(cm')
              msgs == NonSystem(cm'.history)
          IN  /\ new.turns <= Len(msgs) - prev.n
              /\ \E a \in (prev.n + 1)..(Len(msgs) + 1), b \in prev.n..Len(msgs) :
                    new.prompt = SummaryPrompt(SubSeq(msgs, a, b))]_vars

\* C25 as stated: a compaction that runs submits the non-system turns other
\* than the window_size most recent ones, in transcript order, and when the
\* summariser returns the summary becomes its (stripped) result; an append
\* that leaves at most window_size non-system turns runs no compaction and
\* leaves the summary unchanged.
C25_CompactionInput ==
    [][AppendStep =>
          LET msgs == NonSystem(cm'.history)
              older == SubSeq(msgs, 1, Len(msgs) - cm.window_size)
          IN  /\ SummaryInvoked =>
                    /\ LatestSummaryCall(cm').prompt = SummaryPrompt(older)
                    /\ LatestSummaryCall(cm').turns = Len(older)
                    /\ cm'.summary_ok =>
                          cm'.summary \in {Strip(o.text) : o \in {x \in SummaryOutcomes : x.ok}}
              /\ Len(msgs) <= cm.window_size =>
                    ~SummaryInvoked /\ cm'.summary = cm.summary]_vars

\* the text of the system turn advance_round records for round n
RoundMark(n) == <<"Round ", ToString(n), " begins.">>

\* the positions of the system turns "Round n begins." in the transcript
MarksOf(history, n) ==
    {j \in 1..Len(history) :
        history[j].type = "system" /\ history[j].message = RoundMark(n)}

\* C26: in every state of a run, every response turn is tagged with a round
\* N >= 1 and the transcript holds exactly one system turn "Round N begins.",
\* placed before it; the rounds begun are as many as the stages begun, each
\* with exactly one such system turn, in increasing order of round.
C26_RoundsMarked ==
    /\ \A i \in 1..Len(cm.history) :
        cm.history[i].type = "response" =>
            /\ cm.history[i].round >= 1
            /\ cm.history[i].round <= cm.round
            /\ Cardinality(MarksOf(cm.history, cm.history[i].round)) = 1
            /\ \A j \in MarksOf(cm.history, cm.history[i].round) : j < i
    /\ cm.round = Len(stageLog)
    /\ \A n \in 1..cm.round : Cardinality(MarksOf(cm.history, n)) = 1
    /\ \A n \in 1..(cm.round - 1) :
        \A j \in MarksOf(cm.history, n), k \in MarksOf(cm.history, n + 1) : j < k
    /\ Cardinality({j \in 1..Len(cm.history) :
                      cm.history[j].type = "system" /\ cm.history[j].message[1] = "Round "})
           = Len(stageLog)

\* a finished run of three stages and three participants: the last turn is
\* tagged round 3 and "Round 3 begins." stands three turns before it
C26_Witness ==
    /\ pc = "done"
    /\ Len(cfg.agents) = 3
    /\ stageLog = <<"opening", "rebuttal", "closing">>
    /\ cm.history[Len(cm.history)].type = "response"
    /\ cm.history[Len(cm.history)].round = 3
    /\ cm.history[Len(cm.history) - 3].message = <<"Round ", "3", " begins.">>

\* C27 as stated: in a round handled by the fallback, the call made for each
\* roster participant has the stage of the round, the controller's
\* knowledge-retrieval setting, and the context the sequential strategy
\* passes to that participant at that point of the round.
C27_FallbackIsSequential ==
    (lastBatch.made /\ lastBatch.fallback) =>
        /\ Len(lastBatch.calls) = Len(cfg.agents)
        /\ \A i \in 1..Len(lastBatch.calls) :
            /\ lastBatch.calls[i].agent = cfg.agents[i].name
            /\ lastBatch.calls[i].stage = lastBatch.stage
            /\ lastBatch.calls[i].use_rag = cfg.use_rag
            /\ lastBatch.calls[i].context = lastBatch.sequential[i]

\* the context of the manager c from which no speaker's turns are left out
ContextOfAll(c) ==
    LET msgs == NonSystem(c.history)
        recent == Join(RenderAll(LET k == Min2(2 * c.window_size, Len(msgs))
                                 IN  SubSeq(msgs, Len(msgs) - k + 1, Len(msgs))), <<NL>>)
        bits == (IF c.summary # << >>
                   THEN << <<"[Earlier summary]", NL>> \o c.summary >> ELSE << >>)
                \o (IF recent # << >> THEN <<recent>> ELSE << >>)
    IN  CASE c.mode = FULL -> Join(RenderAll(msgs), <<NL>>)
          [] c.mode = SUMMARIZED -> IF c.summary # << >> THEN c.summary
                                    ELSE <<"[No summary yet]">>
          [] OTHER -> IF bits # << >> THEN Join(bits, <<NL>>) ELSE <<"[No context]">>

\* C29 as stated: when a batched round is about to acquire its responses,
\* advance_round has recorded the round and no turn of the round has been
\* appended; the one context string of the round is empty in the opening
\* and otherwise the context of the transcript with no participant's turns
\* left out, whatever the participants are called; every request of the
\* round is made with that string.
C29_BatchContext ==
    /\ pc = "batch" =>
        /\ cm.history[Len(cm.history)].message = <<"Round ", ToString(cm.round), " begins.">>
        /\ ResponsesIn(cm.history, cm.round) = << >>
        /\ ~shared_context.none
        /\ shared_context.text = IF stage = "opening" THEN << >> ELSE ContextOfAll(cm)
    /\ lastBatch.made =>
        \A i \in 1..Len(lastBatch.calls) : lastBatch.calls[i].context = lastBatch.context

\* the first line after line i that starts with an AGENT_ label, whatever the
\* label is, or the position after the last line
NextLabel(i) ==
    LET later == {j \in (i + 1)..Len(ReplyText) :
                    ReplyText[j] # << >> /\ ReplyText[j][1] = LABEL}
    IN  IF later = {} THEN Len(ReplyText) + 1
        ELSE CHOOSE j \in later : \A m \in later : j <= m

\* the text between the label of line i and the next label: what follows the
\* colon and the lines of text up to the next label, joined by spaces
TextUpToNextLabel(i) ==
    LET between == SubSeq(ReplyText, i + 1, NextLabel(i) - 1)
        pieces == SelectSeq(<<AfterColon(ReplyText[i])>> \o between, LAMBDA l : l # << >>)
    IN  Strip(Join(pieces, <<" ">>))

\* C28 as stated: for a participant whose label stands once in the reply,
\* with text between it and the next line that starts with an AGENT_ label,
\* the parsed entry is exactly that text, whatever the next label names.
C28_TextUpToNextLabel ==
    parsed.made =>
        \A k \in 1..Len(cfg.agents), i \in 1..Len(ReplyText) :
            (/\ Labelled(ReplyText[i], k)
             /\ \A j \in 1..Len(ReplyText) : Labelled(ReplyText[j], k) => j = i
             /\ TextUpToNextLabel(i) # << >>) =>
                parsed.responses[cfg.agents[k].name] = TextUpToNextLabel(i)

\* C30 as stated: a run of a controller with at least 2 participants and
\* max_rounds >= 2 eventually reaches the end of run(), every stage of its
\* schedule executed, whichever of its generation and summarisation calls
\* raise.
C30_RunCompletes ==
    (Len(cfg.agents) >= 2 /\ cfg.max_rounds >= 2)
        ~> (pc = "done" /\ stageLog = Schedule(cfg.max_rounds))

CompactionDue(c) ==
    /\ c.mode \in {HYBRID, SUMMARIZED}
    /\ c.turns_since_last_summary + 1 >= c.summary_every_n_turns
    /\ Len(NonSystem(c.history)) + 1 > c.window_size

\* the latest append to the transcript is the one that started the latest
\* compaction
JustCompacted ==
    /\ Len(cm.summary_model) > 0
    /\ cm.summary_model[Len(cm.summary_model)].n = Len(NonSystem(cm.history))

\* the context text holds the summary of the manager c, when there is one
CarriesSummary(text, c) ==
    (c.mode \in {HYBRID, SUMMARIZED} /\ c.summary # << >>) => Contains(text, c.summary)

\* what the steps of a sequential run do to the summary: a turn whose append
\* is due for a compaction leaves the summary replaced or annotated and the
\* counter at 0 when add_message has returned; no other step, and no
\* computation of a context, calls the summariser or changes the summary
CompactionInsideAppend ==
    [][IF pc = "individual" /\ pc' # "aborted" /\ CompactionDue(cm)
       THEN /\ Len(cm'.summary_model) = Len(cm.summary_model) + 1
            /\ cm'.turns_since_last_summary = 0
            /\ \E out \in SummaryOutcomes :
                /\ cm'.summary_ok = out.ok
                /\ cm'.summary = IF out.ok THEN Strip(out.text)
                                 ELSE cm.summary \o <<NL, "[Summary failed: ">>
                                      \o out.text \o <<"]">>
       ELSE /\ cm'.summary_model = cm.summary_model
            /\ cm'.summary = cm.summary]_vars

\* C32 as stated: a compaction started by an append is complete when
\* add_message returns, context_for starts none, and in a sequential round
\* of any stage the participant that follows the triggering turn receives
\* the new summary in its context.
C32_NextReceivesSummary ==
    /\ CompactionInsideAppend
    /\ [][(pc = "individual" /\ idx > 1 /\ JustCompacted)
            => CarriesSummary(lastCall'.context, cm)]_vars

\* C32: a compaction started by an append is complete (summary replaced or
\* annotated, counter at 0) when add_message returns, and context_for
\* starts none; in a sequential rebuttal or closing round every participant,
\* the one that follows a triggering turn included, receives the summary as
\* it is at that moment; in the opening round every participant receives the
\* empty context, whatever has been summarised.
C32_NextReceivesSummaryAfterOpening ==
    /\ CompactionInsideAppend
    /\ [][(pc = "individual" /\ stage # "opening")
            => /\ CarriesSummary(lastCall'.context, cm)
               /\ lastCall'.context = context_for(cm, cfg.agents[idx].name)]_vars
    /\ [][(pc = "individual" /\ stage = "opening") => lastCall'.context = << >>]_vars

\* a participant speaks in the middle of a round after the opening, right
\* after the turn that started a compaction, with the new summary in its
\* context
C32_Witness ==
    /\ lastCall.made
    /\ lastCall.stage # "opening"
    /\ lastCall.agent # cfg.agents[1].name
    /\ Len(cm.summary_model) = 1
    /\ cm.summary_model[1].n = lastCall.turns
    /\ cm.summary = <<"S">>
    /\ Contains(lastCall.context, <<"S">>)

\* C33: add_message(speaker, text) leaves the transcript one turn longer:
\* the new last turn is a response of that speaker with that text, tagged
\* with the current round, whether or not the speaker is on the roster;
\* every earlier turn keeps its position and content, and the round counter,
\* the topic, the roster and the settings of the manager are unchanged.
C33_AddMessageFrame ==
    [][CMAddMessage =>
        /\ Len(cm'.history) = Len(cm.history) + 1
        /\ SubSeq(cm'.history, 1, Len(cm.history)) = cm.history
        /\ \E speaker \in Speakers :
            cm'.history[Len(cm'.history)] =
                [round |-> cm.round, agent |-> speaker, message |-> <<"arg">>,
                 type |-> "response"]
        /\ cm'.round = cm.round
        /\ cm'.topic = cm.topic
        /\ cm'.participants = cm.participants
        /\ cm'.mode = cm.mode
        /\ cm'.window_size = cm.window_size
        /\ cm'.summary_every_n_turns = cm.summary_every_n_turns]_vars

\* in round 1 of a started debate a speaker who is not on the roster has
\* been recorded after a participant, in a manager that has just compacted
C33_Witness ==
    /\ cm.participants = <<"Ann", "Cy">>
    /\ cm.round = 1
    /\ Len(cm.history) = 5
    /\ cm.history[4].agent = "Ann"
    /\ cm.history[5] = [round |-> 1, agent |-> "Bob", message |-> <<"arg">>,
                        type |-> "response"]
    /\ Len(cm.summary_model) = 1

\* C34: whatever the manager holds when start_debate is called, afterwards
\* the transcript is exactly the start announcement followed by the roster
\* line, both system turns tagged round 0, the round counter is 0, the
\* summary is empty, turns_since_last_summary is 0, and topic and roster are
\* those given; mode, window and threshold are as constructed.
C34_StartDebateResets ==
    [][CMStartDebate =>
        /\ cm'.history =
             << [round |-> 0, agent |-> "SYSTEM", type |-> "system",
                 message |-> <<"Debate started on '", "T", "'.">>],
                [round |-> 0, agent |-> "SYSTEM", type |-> "system",
                 message |-> <<"Participants: ", "Ann", ", ", "Cy">>] >>
        /\ cm'.round = 0
        /\ cm'.summary = << >>
        /\ cm'.turns_since_last_summary = 0
        /\ cm'.topic = <<"T">>
        /\ cm'.participants = <<"Ann", "Cy">>
        /\ cm'.mode = cm.mode
        /\ cm'.window_size = cm.window_size
        /\ cm'.summary_every_n_turns = cm.summary_every_n_turns]_vars

\* start_debate has been called on a manager that had summarised twice:
\* the transcript holds the two system turns and the summary is empty
C34_Witness ==
    /\ Len(cm.summary_model) = 2
    /\ cm.participants = <<"Ann", "Cy">>
    /\ Len(cm.history) = 2
    /\ cm.history[2].type = "system"
    /\ cm.round = 0
    /\ cm.summary = << >>
    /\ cm.turns_since_last_summary = 0
    /\ calls = 4

\* the system turns "Round ... begins." of a transcript
RoundMarks(history) ==
    SelectSeq(history, LAMBDA m : m.type = "system" /\ m.message[1] = "Round ")

\* C35: in every state the round tags of the transcript, read in insertion
\* order, never decrease and none exceeds the round counter; the round
\* counter goes up by one with every advance_round, to 0 with start_debate,
\* and is changed by nothing else, so that it equals the number of
\* advance_round calls since the transcript was last cleared, each of which
\* has left its mark "Round N begins." in the transcript.
C35_RoundsMonotone ==
    /\ [](\A i \in 1..Len(cm.history), j \in 1..Len(cm.history) :
            i <= j => cm.history[i].round <= cm.history[j].round)
    /\ [](\A i \in 1..Len(cm.history) : cm.history[i].round <= cm.round)
    /\ [](cm.round = Len(RoundMarks(cm.history)))
    /\ [](\A n \in 1..cm.round : RoundMarks(cm.history)[n].message = RoundMark(n))
    /\ [][/\ CMAdvanceRound => cm'.round = cm.round + 1
          /\ CMStartDebate => cm'.round = 0
          /\ (~CMAdvanceRound /\ ~CMStartDebate) => cm'.round = cm.round]_vars

\* a debate started, two rounds begun with a turn in each: the tags read
\* 0, 0, 1, 1, 2, 2
C35_Witness ==
    /\ calls = 5
    /\ cm.round = 2
    /\ Len(cm.history) = 6
    /\ [i \in 1..6 |-> cm.history[i].round] = <<0, 0, 1, 1, 2, 2>>
    /\ cm.history[6].type = "response"

\* the number of leading non-system turns given to the latest summarisation
\* call of the manager c: the prefix its summary covers, at best
CoveredPrefix(c) ==
    IF Len(c.summary_model) = 0 THEN 0
    ELSE c.summary_model[Len(c.summary_model)].turns

\* the position of the first non-system turn inside the recent window of c
WindowStart(c) ==
    LET msgs == NonSystem(c.history)
    IN  Len(msgs) - Len(PySliceFrom(msgs, 0 - (c.window_size * 2))) + 1

\* C36 as stated: in HYBRID mode, in every state of a debate and for every
\* participant as requester, each non-system turn of another speaker lies in
\* the prefix given to the latest summarisation or in the recent window.
C36_NoGap ==
    cm.mode = HYBRID =>
        \A a \in 1..Len(cfg.agents), i \in 1..Len(NonSystem(cm.history)) :
            NonSystem(cm.history)[i].agent # cfg.agents[a].name =>
                \/ i <= CoveredPrefix(cm)
                \/ i >= WindowStart(cm)

\* C37 as stated: a respond call of an agent with a model provider whose
\* generation call returned gives back the generated text, cleaned (after
\* the opener the drift correction may put before it), and no error
\* placeholder, whether or not the agent has a knowledge domain.
C37_GeneratedTextReturned ==
    (lastCall.made /\ ~lastCall.raised /\ lastCall.generated /\ lastCall.gen_ok) =>
        /\ ~IsErrorPlaceholder(lastCall.text)
        /\ Contains(lastCall.text, clean_response(<<"arg">>))

\* C38 as stated: in SUMMARIZED mode, while no summarization call has
\* failed, the non-system turns after the prefix given to the latest
\* summarisation call are never more than
\* window_size + summary_every_n_turns - 1.
C38_UncoveredBounded ==
    (/\ cm.mode = SUMMARIZED
     /\ cm.summary_ok
     /\ ~Contains(cm.summary, <<"[Summary failed: ">>)) =>
        Len(NonSystem(cm.history)) - CoveredPrefix(cm)
            <= cm.window_size + cm.summary_every_n_turns - 1

\* C39 as stated: once the user has entered quit or exit, no entry, of the
\* user or of an AI, is added to the debate history, and the user is not
\* asked again.
C39_QuitEndsDebate ==
    [][user_debate.quit =>
        /\ user_debate'.debate_history = user_debate.debate_history
        /\ ~HandleUserTurn]_vars

\* the rounds of which the debate history holds an entry
RoundsPlayed(ss) == {ss.debate_history[i].round : i \in 1..Len(ss.debate_history)}

\* C40 as stated: the debate history never holds an entry with round > 4;
\* once 4 rounds have been run neither Next Round nor Skip to End runs
\* another; Skip to End runs exactly the rounds not yet run, leaving the
\* round counter at 4.
C40_FourRounds ==
    /\ [](\A n \in RoundsPlayed(session_state) : n <= 4)
    /\ [][(session_state.current_round >= 4 /\ (NextRoundButton \/ SkipToEndButton))
            => /\ session_state'.debate_history = session_state.debate_history
               /\ session_state'.current_round = session_state.current_round]_vars
    /\ [][(session_state.current_round < 4 /\ SkipToEndButton)
            => /\ session_state'.current_round = 4
               /\ RoundsPlayed(session_state') \ RoundsPlayed(session_state)
                    \subseteq (session_state.current_round + 1)..4]_vars

====
